---- MODULE Spec2Model ----
(***************************************************************************)
(* The in-memory property graph of codenexus-mcp and its persistence:      *)
(* GraphologyManager (src/src/graphologyManager.ts), which owns a          *)
(* graphology MultiGraph (mixed, multi, self-loops allowed), and           *)
(* KnowledgeGraphManager (src/src/server.ts), which delegates every tool   *)
(* call to it and saves the whole graph after each mutating call.          *)
(*                                                                         *)
(* A graph is a set of node records and a set of edge records, as          *)
(* graphology exports them.  Attribute maps are functions from attribute   *)
(* names to values; a JavaScript undefined stored as a value is UNDEF.     *)
(***************************************************************************)
EXTENDS Integers, Sequences, FiniteSets, TLC

\* Longest batch (entities, relations, ids, ...) handed to one call.
MaxBatch == 2

\* The value of an attribute that was stored as a JavaScript undefined.
UNDEF == "undefined"

\* a || b of JavaScript tests its left operand for truthiness.
Truthy(v) == v \notin {UNDEF, ""}

----------------------------------------------------------------------------
(* Attribute maps *)

NoAttrs == <<>>

\* Object spread {...old, ...new} and graphology's mergeNodeAttributes
\* (Object.assign): keys of new overwrite, the other keys of old stay.
AssignAttrs(old, new) ==
    [k \in (DOMAIN old) \cup (DOMAIN new) |->
        IF k \in DOMAIN new THEN new[k] ELSE old[k]]

----------------------------------------------------------------------------
(* graphology MultiGraph, as GraphologyManager uses it *)

EmptyGraph == [nodes |-> {}, edges |-> {}]

HasNode(g, id) == \E n \in g.nodes : n.key = id

HasEdge(g, key) == \E e \in g.edges : e.key = key

GetNodeAttributes(g, id) == (CHOOSE n \in g.nodes : n.key = id).attributes

GetEdge(g, key) == CHOOSE e \in g.edges : e.key = key

\* addNode: the caller has checked !hasNode (addNode throws otherwise).
AddNode(g, id, attrs) ==
    [g EXCEPT !.nodes = @ \cup {[key |-> id, attributes |-> attrs]}]

\* mergeNodeAttributes on an existing node.
MergeNodeAttributes(g, id, attrs) ==
    [g EXCEPT !.nodes =
        {IF n.key = id
            THEN [n EXCEPT !.attributes = AssignAttrs(@, attrs)]
            ELSE n : n \in @}]

\* addEdgeWithKey throws when an endpoint is missing or the key is in use;
\* self-loops and parallel edges are allowed (allowSelfLoops, multi).
\* For comparison: an addEdgeWithKey that accepts a key already in use.
AddEdgeThrowsOnEndpoints(g, key, source, target) ==
    \/ ~HasNode(g, source)
    \/ ~HasNode(g, target)

AddEdgeThrows(g, key, source, target) ==
    \/ ~HasNode(g, source)
    \/ ~HasNode(g, target)
    \/ HasEdge(g, key)

\* addEdgeWithKey on a mixed graph adds a directed edge.
AddEdgeWithKey(g, key, source, target, attrs) ==
    [g EXCEPT !.edges = @ \cup
        {[key |-> key, source |-> source, target |-> target,
          attributes |-> attrs, undirected |-> FALSE]}]

\* Variants of dropNode that leave edges of the dropped node behind.
DropNodeOnly(g, id) == [g EXCEPT !.nodes = {n \in @ : n.key # id}]

DropNodeOutEdges(g, id) ==
    [nodes |-> {n \in g.nodes : n.key # id},
     edges |-> {e \in g.edges : e.source # id}]

\* dropNode removes the node and every edge incident to it.
DropNode(g, id) ==
    [nodes |-> {n \in g.nodes : n.key # id},
     edges |-> {e \in g.edges : e.source # id /\ e.target # id}]

\* For comparison: a dropEdge that takes the parallel edges along.
DropEdgeParallel(g, key) ==
    [g EXCEPT !.edges = {e \in @ : \A d \in @ :
                            d.key = key =>
                                (e.source # d.source \/ e.target # d.target)}]

DropEdge(g, key) == [g EXCEPT !.edges = {e \in @ : e.key # key}]

----------------------------------------------------------------------------
(* GraphologyManager.createEntities *)

\* nodeAttrs of one entity: its attributes, then type, then the name
\* (the given one, or the id when none or a falsy one is given).
EntityNodeAttrs(entity) ==
    AssignAttrs(entity.attributes,
        [type |-> entity.type,
         name |-> IF "name" \in DOMAIN entity.attributes
                     /\ Truthy(entity.attributes.name)
                  THEN entity.attributes.name
                  ELSE entity.id])

\* A variant of the turn that adds the node without asking hasNode.
CreateEntityUnchecked(st, entity) ==
    [st EXCEPT !.graph = AddNode(@, entity.id, EntityNodeAttrs(entity)),
               !.createdIds = Append(@, entity.id)]

\* One turn of the forEach of createEntities.
CreateEntity(st, entity) ==
    IF HasNode(st.graph, entity.id)
    THEN [st EXCEPT !.existingIds = Append(@, entity.id),
                    !.graph = MergeNodeAttributes(@, entity.id,
                                  EntityNodeAttrs(entity))]
    ELSE [st EXCEPT !.graph = AddNode(@, entity.id, EntityNodeAttrs(entity)),
                    !.createdIds = Append(@, entity.id)]

RECURSIVE ForEachEntity(_, _)
ForEachEntity(st, entities) ==
    IF entities = <<>> THEN st
    ELSE ForEachEntity(CreateEntity(st, Head(entities)), Tail(entities))

CreateEntities(g, entities) ==
    ForEachEntity([graph |-> g, createdIds |-> <<>>, existingIds |-> <<>>],
                  entities)

----------------------------------------------------------------------------
(* GraphologyManager.createRelations *)

RelationEdgeAttrs(relation) ==
    AssignAttrs(relation.attributes, [type |-> relation.type])

\* One turn of the forEach of createRelations.
CreateRelation(st, relation) ==
    IF ~HasNode(st.graph, relation.source)
    THEN [st EXCEPT !.errors = Append(@,
             "Source node " \o relation.source
                 \o " does not exist for relation.")]
    ELSE IF ~HasNode(st.graph, relation.target)
    THEN [st EXCEPT !.errors = Append(@,
             "Target node " \o relation.target
                 \o " does not exist for relation.")]
    ELSE IF AddEdgeThrows(st.graph, relation.id, relation.source,
                          relation.target)
    THEN IF HasEdge(st.graph, relation.id)
         THEN [st EXCEPT !.errors = Append(@,
                  "Relation with ID " \o relation.id \o " already exists.")]
         ELSE [st EXCEPT !.errors = Append(@,
                  "Failed to add relation " \o relation.id)]
    ELSE [st EXCEPT !.graph = AddEdgeWithKey(@, relation.id, relation.source,
                                  relation.target, RelationEdgeAttrs(relation)),
                    !.createdKeys = Append(@, relation.id)]

\* For comparison: a loop that gives up at the first item in error.
RECURSIVE ForEachRelationAborts(_, _)
ForEachRelationAborts(st, relations) ==
    IF relations = <<>> \/ st.errors # <<>> THEN st
    ELSE ForEachRelationAborts(CreateRelation(st, Head(relations)),
                               Tail(relations))

RECURSIVE ForEachRelation(_, _)
ForEachRelation(st, relations) ==
    IF relations = <<>> THEN st
    ELSE ForEachRelation(CreateRelation(st, Head(relations)), Tail(relations))

CreateRelations(g, relations) ==
    ForEachRelation([graph |-> g, createdKeys |-> <<>>, errors |-> <<>>],
                    relations)

----------------------------------------------------------------------------
(* GraphologyManager.createObservations *)

ObservationNodeAttrs(obs) ==
    AssignAttrs(obs.attributes,
        [type |-> "observation",
         name |-> "Observation " \o obs.id,
         content |-> obs.content,
         tags |-> obs.tags])

\* The deterministic key of the relates_to edge of an observation.
RelatesToKey(obsNodeId, entityId) == obsNodeId \o "-relates_to->" \o entityId

\* One turn of the forEach over relatedEntityIds.
LinkObservation(g, obsNodeId, entityId) ==
    IF HasNode(g, entityId)
    THEN IF ~HasEdge(g, RelatesToKey(obsNodeId, entityId))
            /\ ~AddEdgeThrows(g, RelatesToKey(obsNodeId, entityId),
                              obsNodeId, entityId)
         THEN AddEdgeWithKey(g, RelatesToKey(obsNodeId, entityId),
                             obsNodeId, entityId, [type |-> "relates_to"])
         ELSE g
    ELSE g

\* For comparison: a loop that gives up at the first related id that is
\* not a node.
RECURSIVE ForEachRelatedEntityAborts(_, _, _)
ForEachRelatedEntityAborts(g, obsNodeId, entityIds) ==
    IF entityIds = <<>> \/ ~HasNode(g, Head(entityIds)) THEN g
    ELSE ForEachRelatedEntityAborts(
             LinkObservation(g, obsNodeId, Head(entityIds)),
             obsNodeId, Tail(entityIds))

RECURSIVE ForEachRelatedEntity(_, _, _)
ForEachRelatedEntity(g, obsNodeId, entityIds) ==
    IF entityIds = <<>> THEN g
    ELSE ForEachRelatedEntity(LinkObservation(g, obsNodeId, Head(entityIds)),
                              obsNodeId, Tail(entityIds))

\* For comparison: a turn that lists the id as created even when the
\* node was there.
CreateObservationListsAll(st, obs) ==
    LET withNode ==
            IF HasNode(st.graph, obs.id)
            THEN [st EXCEPT !.graph = MergeNodeAttributes(@, obs.id,
                                          ObservationNodeAttrs(obs)),
                            !.createdIds = Append(@, obs.id)]
            ELSE [st EXCEPT !.graph = AddNode(@, obs.id,
                                          ObservationNodeAttrs(obs)),
                            !.createdIds = Append(@, obs.id)]
    IN  [withNode EXCEPT !.graph =
            ForEachRelatedEntity(@, obs.id, obs.relatedEntityIds)]

\* One turn of the forEach of createObservations.
CreateObservation(st, obs) ==
    LET withNode ==
            IF HasNode(st.graph, obs.id)
            THEN [st EXCEPT !.graph = MergeNodeAttributes(@, obs.id,
                                          ObservationNodeAttrs(obs))]
            ELSE [st EXCEPT !.graph = AddNode(@, obs.id,
                                          ObservationNodeAttrs(obs)),
                            !.createdIds = Append(@, obs.id)]
    IN  [withNode EXCEPT !.graph =
            ForEachRelatedEntity(@, obs.id, obs.relatedEntityIds)]

RECURSIVE ForEachObservation(_, _)
ForEachObservation(st, observations) ==
    IF observations = <<>> THEN st
    ELSE ForEachObservation(CreateObservation(st, Head(observations)),
                            Tail(observations))

CreateObservations(g, observations) ==
    ForEachObservation([graph |-> g, createdIds |-> <<>>], observations)

----------------------------------------------------------------------------
(* GraphologyManager.readGraph *)

\* nodeAttrs[key]: undefined for a key the node does not have.
GetAttribute(attrs, key) == IF key \in DOMAIN attrs THEN attrs[key] ELSE UNDEF

\* The attribute values that stand for arrays (the tags of an observation).
ArrayValues == {"[t]"}

\* a === b.  An array is equal to itself only, and the array in a filter
\* was parsed from the request: it is never the array a node holds.
StrictEquals(a, b) == a = b /\ a \notin ArrayValues

\* filter?.part: an array and an object are truthy even when empty.
Given(filter, part) == part \in DOMAIN filter

\* For comparison: an edge test that is content with one end.
EitherExtremityIn(e, nodeSet) == e.source \in nodeSet \/ e.target \in nodeSet

\* nodeSet.has(extremities[0]) && nodeSet.has(extremities[1])
BothExtremitiesIn(e, nodeSet) == e.source \in nodeSet /\ e.target \in nodeSet

\* The three filters in the order of the code.
FilterNodes(g, filter) ==
    LET byId == IF Given(filter, "nodeIds")
                THEN {n \in g.nodes : n.key \in filter.nodeIds}
                ELSE g.nodes
        byType == IF Given(filter, "types")
                  THEN {n \in byId :
                           GetAttribute(n.attributes, "type") \in filter.types}
                  ELSE byId
    IN  IF Given(filter, "attributes")
        THEN {n \in byType :
                 \A k \in DOMAIN filter.attributes :
                     StrictEquals(GetAttribute(n.attributes, k),
                                  filter.attributes[k])}
        ELSE byType

\* The result lists are modelled without their order: nodes as a set,
\* edges as a bag that counts how often an edge is pushed.
ReadGraph(g, filter) ==
    LET nodes == FilterNodes(g, filter)
        nodeSet == {n.key : n \in nodes}
        edges == IF nodes # {}
                 THEN {e \in g.edges : BothExtremitiesIn(e, nodeSet)}
                 ELSE {}
    IN  [nodes |-> {[id |-> n.key, attributes |-> n.attributes] : n \in nodes},
         edges |-> [x \in {[id |-> e.key, source |-> e.source,
                            target |-> e.target,
                            attributes |-> e.attributes] : e \in edges} |-> 1]]

----------------------------------------------------------------------------
(* GraphologyManager.updateEntities, deleteEntities, deleteRelations *)

\* For comparison: a turn that replaces the attributes of the node.
UpdateEntityReplaces(st, update) ==
    IF HasNode(st.graph, update.id)
    THEN [st EXCEPT !.graph = AddNode(DropNodeOnly(@, update.id), update.id,
                                      update.attributes),
                    !.updatedIds = Append(@, update.id)]
    ELSE [st EXCEPT !.notFoundIds = Append(@, update.id)]

\* One turn of the forEach of updateEntities.
UpdateEntity(st, update) ==
    IF HasNode(st.graph, update.id)
    THEN [st EXCEPT !.graph = MergeNodeAttributes(@, update.id,
                                  update.attributes),
                    !.updatedIds = Append(@, update.id)]
    ELSE [st EXCEPT !.notFoundIds = Append(@, update.id)]

RECURSIVE ForEachUpdate(_, _)
ForEachUpdate(st, updates) ==
    IF updates = <<>> THEN st
    ELSE ForEachUpdate(UpdateEntity(st, Head(updates)), Tail(updates))

UpdateEntities(g, updates) ==
    ForEachUpdate([graph |-> g, updatedIds |-> <<>>, notFoundIds |-> <<>>],
                  updates)

DeleteEntity(st, id) ==
    IF HasNode(st.graph, id)
    THEN [st EXCEPT !.graph = DropNode(@, id),
                    !.deletedIds = Append(@, id)]
    ELSE [st EXCEPT !.notFoundIds = Append(@, id)]

RECURSIVE ForEachDeletedId(_, _)
ForEachDeletedId(st, ids) ==
    IF ids = <<>> THEN st
    ELSE ForEachDeletedId(DeleteEntity(st, Head(ids)), Tail(ids))

DeleteEntities(g, ids) ==
    ForEachDeletedId([graph |-> g, deletedIds |-> <<>>, notFoundIds |-> <<>>],
                     ids)

DeleteRelation(st, key) ==
    IF HasEdge(st.graph, key)
    THEN [st EXCEPT !.graph = DropEdge(@, key),
                    !.deletedKeys = Append(@, key)]
    ELSE [st EXCEPT !.notFoundKeys = Append(@, key)]

RECURSIVE ForEachDeletedKey(_, _)
ForEachDeletedKey(st, keys) ==
    IF keys = <<>> THEN st
    ELSE ForEachDeletedKey(DeleteRelation(st, Head(keys)), Tail(keys))

DeleteRelations(g, keys) ==
    ForEachDeletedKey([graph |-> g, deletedKeys |-> <<>>,
                       notFoundKeys |-> <<>>], keys)

----------------------------------------------------------------------------
(* Persistence: graph.export(), JSON.stringify, JSON.parse, graph.import() *)

\* graphology leaves an empty attribute map out of a serialized node.
SerializeNode(n) ==
    IF DOMAIN n.attributes = {}
    THEN [key |-> n.key]
    ELSE [key |-> n.key, attributes |-> n.attributes]

\* ... and out of a serialized edge; it writes undirected only when true.
SerializeEdge(e) ==
    LET ends == [key |-> e.key, source |-> e.source, target |-> e.target]
        withAttrs ==
            IF DOMAIN e.attributes = {} THEN ends
            ELSE [key |-> e.key, source |-> e.source, target |-> e.target,
                  attributes |-> e.attributes]
    IN  IF e.undirected
        THEN [k \in (DOMAIN withAttrs) \cup {"undirected"} |->
                 IF k = "undirected" THEN TRUE ELSE withAttrs[k]]
        ELSE withAttrs

Export(g) ==
    [options |-> [type |-> "mixed", multi |-> TRUE, allowSelfLoops |-> TRUE],
     attributes |-> NoAttrs,
     nodes |-> {SerializeNode(n) : n \in g.nodes},
     edges |-> {SerializeEdge(e) : e \in g.edges}]

\* JSON.stringify of an object leaves out the keys whose value is undefined.
JsonObject(attrs) == [k \in {j \in DOMAIN attrs : attrs[j] # UNDEF} |-> attrs[k]]

JsonItem(s) ==
    IF "attributes" \in DOMAIN s
    THEN [s EXCEPT !.attributes = JsonObject(@)]
    ELSE s

\* A JSON text is modelled by the value it denotes.
JsonStringify(data) ==
    [wellFormed |-> TRUE,
     value |-> [data EXCEPT !.nodes = {JsonItem(s) : s \in @},
                            !.edges = {JsonItem(s) : s \in @}]]

JsonParse(text) == text.value

ImportNode(s) ==
    [key |-> s.key,
     attributes |-> IF "attributes" \in DOMAIN s THEN s.attributes ELSE NoAttrs]

ImportEdge(s) ==
    [key |-> s.key, source |-> s.source, target |-> s.target,
     attributes |-> IF "attributes" \in DOMAIN s THEN s.attributes ELSE NoAttrs,
     undirected |-> IF "undirected" \in DOMAIN s THEN s.undirected ELSE FALSE]

\* graph.import(data) into the empty graph of a new manager.
Import(g, data) ==
    [nodes |-> g.nodes \cup {ImportNode(s) : s \in data.nodes},
     edges |-> g.edges \cup {ImportEdge(s) : s \in data.edges}]

\* The text saveGraph hands to fs.writeFile.
SaveGraphData(g) == JsonStringify(Export(g))

NoFile == [exists |-> FALSE, text |-> JsonStringify(Export(EmptyGraph))]

\* A file that saveGraph wrote in an earlier run of the server.
EarlierFile ==
    [exists |-> TRUE,
     text |-> SaveGraphData(AddNode(EmptyGraph, "b", [type |-> "class",
                                                      name |-> "b"]))]

\* A file whose contents JSON.parse rejects.
CorruptFile ==
    [exists |-> TRUE,
     text |-> [wellFormed |-> FALSE, value |-> Export(EmptyGraph)]]

JsonParseThrows(text) == ~text.wellFormed

\* For comparison: a loadGraph that also rejects when the file is missing.
LoadGraphThrowsOnMissing(file) ==
    ~file.exists \/ JsonParseThrows(file.text)

\* loadGraph rethrows every error but ENOENT.
LoadGraphThrows(file) == file.exists /\ JsonParseThrows(file.text)

\* loadGraph: a missing file (ENOENT) clears the graph.
LoadGraph(g, file) ==
    IF file.exists THEN Import(g, JsonParse(file.text)) ELSE EmptyGraph

----------------------------------------------------------------------------
(* The tool calls the model issues *)

Batches(S) == UNION {[1..n -> S] : n \in 0..MaxBatch}

EntityInputs ==
    {[id |-> "a", type |-> "class", attributes |-> x] :
        x \in {NoAttrs, [name |-> "N"], [k |-> "v1"], [k |-> "v2"]}}
    \cup {[id |-> "b", type |-> t, attributes |-> NoAttrs] :
             t \in {"class", "function"}}

RelationInputs ==
    {[id |-> "r1", source |-> "a", target |-> "b", type |-> "calls",
      attributes |-> NoAttrs],
     [id |-> "r1", source |-> "b", target |-> "a", type |-> "calls",
      attributes |-> NoAttrs]}
    \cup {[id |-> "r2", source |-> "a", target |-> t, type |-> "uses",
           attributes |-> NoAttrs] : t \in {"a", "b"}}
    \* a caller may give a relation any id, the id of a relates_to edge
    \* that createObservations derives among them
    \cup {[id |-> RelatesToKey("o", "a"), source |-> "a", target |-> "a",
           type |-> "calls", attributes |-> NoAttrs]}

\* No call creates "z": it is the related entity that is missing.
ObservationInputs ==
    {[id |-> "o", content |-> "c", tags |-> UNDEF, attributes |-> NoAttrs,
      relatedEntityIds |-> <<"a">>],
     [id |-> "o", content |-> "c", tags |-> "[t]", attributes |-> NoAttrs,
      relatedEntityIds |-> <<"z", "a">>],
     [id |-> "o", content |-> "c", tags |-> UNDEF, attributes |-> NoAttrs,
      relatedEntityIds |-> <<"a", "z">>]}

UpdateInputs ==
    {[id |-> "a", attributes |-> [k |-> "v2"]],
     [id |-> "a", attributes |-> [name |-> "N"]]}

NodeIds == {"a", "b", "o"}

\* The filters of read_graph; the first is no filter at all.  nodeIds and
\* types are given as the sets the code makes of them.
ReadFilters ==
    {NoAttrs,
     [nodeIds |-> {}],
     [nodeIds |-> {"a", "z"}],
     [types |-> {"class"}],
     [attributes |-> [name |-> "N"]],
     [attributes |-> [type |-> "class", name |-> "a"]],
     [attributes |-> [tags |-> "[t]"]],
     [types |-> {"class", "function"}, attributes |-> [k |-> "v1"]],
     [nodeIds |-> {"a", "o"}, types |-> {"class", "observation"}]}

EdgeKeys == {"r1", "r2", RelatesToKey("o", "a")}

----------------------------------------------------------------------------
(* KnowledgeGraphManager: one tool call at a time *)

VARIABLES
    graph,   \* GraphologyManager.graph
    store,   \* the file at graphFilePath
    outage,  \* TRUE while fs.writeFile may fail
    call     \* the tool call in progress and where it stands; once it is
             \* done, its result and the file contents its save found

vars == <<graph, store, outage, call>>

\* After the constructors; main() has not yet awaited initialize().
Init ==
    /\ graph = EmptyGraph
    /\ store \in {NoFile, EarlierFile, CorruptFile}
    /\ outage \in BOOLEAN
    /\ call = [phase |-> "new"]

\* KnowledgeGraphManager.initialize
Initialize ==
    /\ call.phase = "new"
    /\ ~LoadGraphThrows(store)
    /\ graph' = LoadGraph(graph, store)
    /\ call' = [phase |-> "idle"]
    /\ UNCHANGED <<store, outage>>

\* loadGraph rejects: main() rejects and the process exits before any tool
\* is registered.
InitializeFails ==
    /\ call.phase = "new"
    /\ LoadGraphThrows(store)
    /\ call' = [phase |-> "failed"]
    /\ UNCHANGED <<graph, store, outage>>

\* No call is in progress: the caller waits for each result.
CanCall == call.phase = "idle"

\* For comparison: a mutator that builds the text to save before it
\* changes the graph.
MutateSavesFirst(op, args, r) ==
    /\ CanCall
    /\ graph' = r.graph
    /\ call' = [phase |-> "saving", op |-> op, args |-> args, pre |-> graph,
                result |-> r, data |-> SaveGraphData(graph)]
    /\ UNCHANGED <<store, outage>>

\* A delegated mutator up to its await: the in-memory change, then
\* persistGraph -> saveGraph, which builds the text and starts the write.
Mutate(op, args, r) ==
    /\ CanCall
    /\ graph' = r.graph
    /\ call' = [phase |-> "saving", op |-> op, args |-> args, pre |-> graph,
                result |-> r, data |-> SaveGraphData(r.graph)]
    /\ UNCHANGED <<store, outage>>

KGMCreateEntities ==
    \E entities \in Batches(EntityInputs) :
        Mutate("createEntities", entities, CreateEntities(graph, entities))

KGMCreateRelations ==
    \E relations \in Batches(RelationInputs) :
        Mutate("createRelations", relations,
               CreateRelations(graph, relations))

KGMCreateObservations ==
    \E observations \in Batches(ObservationInputs) :
        Mutate("createObservations", observations,
               CreateObservations(graph, observations))

KGMUpdateEntities ==
    \E updates \in Batches(UpdateInputs) :
        Mutate("updateEntities", updates, UpdateEntities(graph, updates))

KGMDeleteEntities ==
    \E ids \in Batches(NodeIds) :
        Mutate("deleteEntities", ids, DeleteEntities(graph, ids))

KGMDeleteRelations ==
    \E keys \in Batches(EdgeKeys) :
        Mutate("deleteRelations", keys, DeleteRelations(graph, keys))

\* fs.writeFile replaces the file; saveGraph and the mutator return.
\* An outage of the store ends with the first write that succeeds.
WriteFileOk ==
    /\ call.phase = "saving"
    /\ store' = [exists |-> TRUE, text |-> call.data]
    /\ outage' = FALSE
    /\ call' = [phase |-> "done", op |-> call.op, outcome |-> "ok",
                result |-> call.result, replaced |-> store]
    /\ UNCHANGED graph

\* For comparison: a failed save that undoes the change in memory.
WriteFileFailsRollsBack ==
    /\ call.phase = "saving"
    /\ outage
    /\ graph' = call.pre
    /\ call' = [phase |-> "done", op |-> call.op, outcome |-> "error",
                result |-> call.result, replaced |-> store]
    /\ UNCHANGED <<store, outage>>

\* fs.writeFile rejects; saveGraph rethrows and the mutator rejects.
WriteFileFails ==
    /\ call.phase = "saving"
    /\ outage
    /\ call' = [phase |-> "done", op |-> call.op, outcome |-> "error",
                result |-> call.result, replaced |-> store]
    /\ UNCHANGED <<graph, store, outage>>

\* KnowledgeGraphManager.readGraph: no change and no save.
KGMReadGraph ==
    \E filter \in ReadFilters :
        /\ CanCall
        /\ call' = [phase |-> "read", op |-> "readGraph", args |-> filter,
                    result |-> ReadGraph(graph, filter)]
        /\ UNCHANGED <<graph, store, outage>>

\* The tool handler hands the result (or the error) to the client.
Respond ==
    /\ call.phase \in {"done", "read"}
    /\ call' = [phase |-> "idle"]
    /\ UNCHANGED <<graph, store, outage>>

\* The server process is started again: new managers, an empty graph.
Restart ==
    /\ CanCall
    /\ graph' = EmptyGraph
    /\ call' = [phase |-> "new"]
    /\ UNCHANGED <<store, outage>>

Next ==
    \/ Initialize
    \/ InitializeFails
    \/ KGMCreateEntities
    \/ KGMCreateRelations
    \/ KGMCreateObservations
    \/ KGMUpdateEntities
    \/ KGMDeleteEntities
    \/ KGMDeleteRelations
    \/ KGMReadGraph
    \/ WriteFileOk
    \/ WriteFileFails
    \/ Respond
    \/ Restart

Spec == Init /\ [][Next]_vars

----------------------------------------------------------------------------
(* GraphHandler: the graphology instance behind GraphManager *)

MaxDepth == 2

\* addEntityNode: the node's attributes are a copy of the entity.
AddEntityNode(g, entity) ==
    IF ~HasNode(g, entity.id) THEN AddNode(g, entity.id, entity) ELSE g

\* addRelationEdge: the edge's attributes are a copy of the relation.
\* addDirectedEdgeWithKey and addUndirectedEdgeWithKey throw when an end
\* is not a node; the graph is then as it was.
AddRelationEdge(g, relation) ==
    IF ~HasEdge(g, relation.id)
       /\ ~AddEdgeThrows(g, relation.id, relation.from, relation.to)
    THEN [g EXCEPT !.edges = @ \cup
             {[key |-> relation.id, source |-> relation.from,
               target |-> relation.to, attributes |-> relation,
               undirected |-> relation.undirected]}]
    ELSE g

DeleteEntityNode(g, id) == IF HasNode(g, id) THEN DropNode(g, id) ELSE g

DeleteRelationEdge(g, id) == IF HasEdge(g, id) THEN DropEdge(g, id) ELSE g

\* forEachInNeighbor and forEachOutNeighbor go along directed edges only;
\* forEachNeighbor goes along every edge, either way.
NeighborsOf(g, node, direction) ==
    LET outN == {e.target : e \in {d \in g.edges :
                                      ~d.undirected /\ d.source = node}}
        inN == {e.source : e \in {d \in g.edges :
                                     ~d.undirected /\ d.target = node}}
        undN == {IF e.source = node THEN e.target ELSE e.source :
                    e \in {d \in g.edges :
                              d.undirected /\ node \in {d.source, d.target}}}
    IN  IF direction = "inbound" THEN inN
        ELSE IF direction = "outbound" THEN outN
        ELSE inN \cup outN \cup undN

\* For comparison: a callback that queues every neighbor it is given.
VisitNeighborAlways(st, depth, neighbor) ==
    [visitedDepths |->
         [x \in DOMAIN st.visitedDepths \cup {neighbor} |->
             IF x = neighbor THEN depth + 1 ELSE st.visitedDepths[x]],
     nodesInNeighborhood |-> st.nodesInNeighborhood \cup {neighbor},
     queue |-> Append(st.queue, [node |-> neighbor, depth |-> depth + 1])]

\* The callback of neighborGetter for one neighbor of a node at depth.
VisitNeighbor(st, depth, neighbor) ==
    IF neighbor \notin DOMAIN st.visitedDepths
       \/ st.visitedDepths[neighbor] > depth + 1
    THEN [visitedDepths |->
              [x \in DOMAIN st.visitedDepths \cup {neighbor} |->
                  IF x = neighbor THEN depth + 1 ELSE st.visitedDepths[x]],
          nodesInNeighborhood |-> st.nodesInNeighborhood \cup {neighbor},
          queue |-> Append(st.queue, [node |-> neighbor, depth |-> depth + 1])]
    ELSE st

\* neighborGetter over the neighbors of a node; the graph of the model
\* keeps no insertion order, the neighbors come in some fixed order.
RECURSIVE ForEachNeighborOf(_, _, _)
ForEachNeighborOf(st, depth, neighbors) ==
    IF neighbors = {} THEN st
    ELSE LET neighbor == CHOOSE x \in neighbors : TRUE
         IN  ForEachNeighborOf(VisitNeighbor(st, depth, neighbor), depth,
                               neighbors \ {neighbor})

\* The while loop over the queue, from position head on.
RECURSIVE BfsFrom(_, _, _, _, _)
BfsFrom(g, maxDepth, direction, st, head) ==
    IF head > Len(st.queue) THEN st
    ELSE LET item == st.queue[head]
         IN  IF item.depth >= maxDepth
             THEN BfsFrom(g, maxDepth, direction, st, head + 1)
             ELSE BfsFrom(g, maxDepth, direction,
                          ForEachNeighborOf(st, item.depth,
                              NeighborsOf(g, item.node, direction)),
                          head + 1)

Bfs(g, startNodeId, maxDepth, direction) ==
    BfsFrom(g, maxDepth, direction,
            [visitedDepths |-> [x \in {startNodeId} |-> 0],
             nodesInNeighborhood |-> {startNodeId},
             queue |-> <<[node |-> startNodeId, depth |-> 0]>>], 1)

\* The relation object pushed for an edge: its attributes and the flag.
RelationOutput(e) ==
    [k \in DOMAIN e.attributes \cup {"undirected"} |->
        IF k = "undirected" THEN e.undirected ELSE e.attributes[k]]

\* How often forEachEdge, called for every node of the neighborhood,
\* reports the edge e: once for each of its ends that is in it.
Reports(e, inside) == Cardinality({n \in inside : n \in {e.source, e.target}})

\* For comparison: every report of an edge with both ends inside is pushed.
PushesUnguarded(e, inside) == Reports(e, inside)

\* edgesInNeighborhood lets the first report of an edge in and no other.
Pushes(e, inside) == IF Reports(e, inside) > 0 THEN 1 ELSE 0

\* getNeighborhood.  entities is the set of the attribute copies;
\* relations is a bag that counts how often a relation is pushed.
GetNeighborhood(g, startNodeId, maxDepth, direction) ==
    IF ~HasNode(g, startNodeId)
    THEN [found |-> FALSE, entities |-> {}, relations |-> <<>>]
    ELSE LET inside == Bfs(g, startNodeId, maxDepth, direction)
                           .nodesInNeighborhood
             edges == {e \in g.edges :
                          e.source \in inside /\ e.target \in inside}
         IN  [found |-> TRUE,
              entities |-> {GetNodeAttributes(g, n) : n \in inside},
              relations |-> [x \in {RelationOutput(e) : e \in edges} |->
                               Pushes(CHOOSE e \in edges :
                                          RelationOutput(e) = x, inside)]]

HandlerEntities == {[id |-> x] : x \in {"a", "b", "c"}}

\* A path a -> b -> c, an edge back, an undirected edge, a self-loop and
\* a parallel edge.
HandlerRelations ==
    {[id |-> "e1", from |-> "a", to |-> "b", undirected |-> FALSE],
     [id |-> "e2", from |-> "b", to |-> "c", undirected |-> FALSE],
     [id |-> "e3", from |-> "c", to |-> "a", undirected |-> FALSE],
     [id |-> "e4", from |-> "a", to |-> "c", undirected |-> TRUE],
     [id |-> "e5", from |-> "a", to |-> "a", undirected |-> FALSE],
     [id |-> "e6", from |-> "a", to |-> "b", undirected |-> FALSE]}

Directions == {"outbound", "inbound", "all"}

\* In HandlerSpec graph is GraphHandler.actualGraphInstance; there is no
\* file, and call is the getNeighborhood call whose result is at hand.
HandlerInit ==
    /\ graph = EmptyGraph
    /\ store = NoFile
    /\ outage = FALSE
    /\ call = [phase |-> "idle"]

HandlerAddEntityNode ==
    \E entity \in HandlerEntities :
        /\ CanCall
        /\ graph' = AddEntityNode(graph, entity)
        /\ UNCHANGED <<store, outage, call>>

HandlerAddRelationEdge ==
    \E relation \in HandlerRelations :
        /\ CanCall
        /\ graph' = AddRelationEdge(graph, relation)
        /\ UNCHANGED <<store, outage, call>>

HandlerDeleteEntityNode ==
    \E entity \in HandlerEntities :
        /\ CanCall
        /\ graph' = DeleteEntityNode(graph, entity.id)
        /\ UNCHANGED <<store, outage, call>>

HandlerDeleteRelationEdge ==
    \E relation \in HandlerRelations :
        /\ CanCall
        /\ graph' = DeleteRelationEdge(graph, relation.id)
        /\ UNCHANGED <<store, outage, call>>

\* For comparison: a getNeighborhood that makes the start node when it
\* is not there.
HandlerGetNeighborhoodAddsStart ==
    \E entity \in HandlerEntities, maxDepth \in 0..MaxDepth,
       direction \in Directions :
        /\ CanCall
        /\ graph' = AddEntityNode(graph, entity)
        /\ call' = [phase |-> "read", op |-> "getNeighborhood",
                    args |-> [startNodeId |-> entity.id,
                              maxDepth |-> maxDepth,
                              direction |-> direction],
                    result |-> GetNeighborhood(graph', entity.id, maxDepth,
                                               direction)]
        /\ UNCHANGED <<store, outage>>

HandlerGetNeighborhood ==
    \E entity \in HandlerEntities, maxDepth \in 0..MaxDepth,
       direction \in Directions :
        /\ CanCall
        /\ call' = [phase |-> "read", op |-> "getNeighborhood",
                    args |-> [startNodeId |-> entity.id,
                              maxDepth |-> maxDepth,
                              direction |-> direction],
                    result |-> GetNeighborhood(graph, entity.id, maxDepth,
                                               direction)]
        /\ UNCHANGED <<graph, store, outage>>

HandlerNext ==
    \/ HandlerAddEntityNode
    \/ HandlerAddRelationEdge
    \/ HandlerDeleteEntityNode
    \/ HandlerDeleteRelationEdge
    \/ HandlerGetNeighborhood
    \/ Respond

HandlerSpec == HandlerInit /\ [][HandlerNext]_vars

----------------------------------------------------------------------------
(* GraphHandler.getNeighborhood, one turn of its loop at a time *)

\* One turn of the while loop: the item at head, its neighbors when its
\* depth is below maxDepth.
LoopTurn(g, maxDepth, direction, st, head) ==
    LET item == st.queue[head]
    IN  IF item.depth >= maxDepth THEN st
        ELSE ForEachNeighborOf(st, item.depth,
                               NeighborsOf(g, item.node, direction))

\* What getNeighborhood returns once the loop has ended with the set
\* inside for nodesInNeighborhood.
CollectNeighborhood(g, inside) ==
    LET edges == {e \in g.edges : e.source \in inside /\ e.target \in inside}
    IN  [found |-> TRUE,
         entities |-> {GetNodeAttributes(g, n) : n \in inside},
         relations |-> [x \in {RelationOutput(e) : e \in edges} |->
                          Pushes(CHOOSE e \in edges : RelationOutput(e) = x,
                                 inside)]]

\* In NeighborhoodSpec call.phase is "loop" while getNeighborhood is in
\* its while loop; call.st holds queue, visitedDepths and
\* nodesInNeighborhood, call.head the position in the queue.
GetNeighborhoodBegin ==
    \E entity \in HandlerEntities, maxDepth \in 0..MaxDepth,
       direction \in Directions :
        /\ CanCall
        /\ LET args == [startNodeId |-> entity.id, maxDepth |-> maxDepth,
                        direction |-> direction]
           IN  call' = IF ~HasNode(graph, entity.id)
                       THEN [phase |-> "read", op |-> "getNeighborhood",
                             args |-> args,
                             result |-> [found |-> FALSE, entities |-> {},
                                         relations |-> <<>>]]
                       ELSE [phase |-> "loop", op |-> "getNeighborhood",
                             args |-> args,
                             st |-> [visitedDepths |->
                                         [x \in {entity.id} |-> 0],
                                     nodesInNeighborhood |-> {entity.id},
                                     queue |-> <<[node |-> entity.id,
                                                  depth |-> 0]>>],
                             head |-> 1]
        /\ UNCHANGED <<graph, store, outage>>

GetNeighborhoodLoop ==
    /\ call.phase = "loop"
    /\ call.head <= Len(call.st.queue)
    /\ call' = [call EXCEPT
                   !.st = LoopTurn(graph, call.args.maxDepth,
                                   call.args.direction, call.st, call.head),
                   !.head = @ + 1]
    /\ UNCHANGED <<graph, store, outage>>

GetNeighborhoodReturn ==
    /\ call.phase = "loop"
    /\ call.head > Len(call.st.queue)
    /\ call' = [phase |-> "read", op |-> "getNeighborhood",
                args |-> call.args,
                result |-> CollectNeighborhood(graph,
                               call.st.nodesInNeighborhood)]
    /\ UNCHANGED <<graph, store, outage>>

NeighborhoodNext ==
    \/ HandlerAddEntityNode
    \/ HandlerAddRelationEdge
    \/ HandlerDeleteEntityNode
    \/ HandlerDeleteRelationEdge
    \/ GetNeighborhoodBegin
    \/ GetNeighborhoodLoop
    \/ GetNeighborhoodReturn
    \/ Respond

\* The loop is not held up: a turn that can be taken is taken.
NeighborhoodSpec ==
    /\ HandlerInit
    /\ [][NeighborhoodNext]_vars
    /\ WF_vars(GetNeighborhoodLoop)
    /\ WF_vars(GetNeighborhoodReturn)

----------------------------------------------------------------------------
(* GraphologyManager.queryGraphAdvanced *)

\* JavaScript null as the value of error; a path that is null.
NULL == "null"

NullPath == [null |-> TRUE]

Has(object, key) == key \in DOMAIN object

\* The object without the given properties (delete object.key).
Delete(object, keys) == [k \in (DOMAIN object) \ keys |-> object[k]]

\* checkConditions: no conditions, or every one of them holds; 'equals'
\* compares with ===, every other operator is not implemented and fails.
CheckConditions(attributes, conditions) ==
    \A i \in 1..Len(conditions) :
        /\ conditions[i].operator = "equals"
        /\ GetAttribute(attributes, conditions[i].attribute)
               = conditions[i].value

\* node_conditions and edge_conditions of an input; none when not given.
NodeConditions(input) ==
    IF Has(input, "node_conditions") THEN input.node_conditions ELSE <<>>

EdgeConditions(input) ==
    IF Has(input, "edge_conditions") THEN input.edge_conditions ELSE <<>>

\* traversal_options?.max_depth, 3 when not given.
DefaultMaxDepth == 3

TraversalMaxDepth(input) ==
    IF Has(input, "traversal_options")
       /\ Has(input.traversal_options, "max_depth")
    THEN input.traversal_options.max_depth
    ELSE DefaultMaxDepth

\* traversal_options?.direction || 'outgoing'
TraversalDirection(input) ==
    IF Has(input, "traversal_options")
       /\ Has(input.traversal_options, "direction")
    THEN input.traversal_options.direction
    ELSE "outgoing"

\* traversal_options?.algorithm || 'bfs'
TraversalAlgorithm(input) ==
    IF Has(input, "traversal_options")
       /\ Has(input.traversal_options, "algorithm")
    THEN input.traversal_options.algorithm
    ELSE "bfs"

\* edgeTypesFilter lets an edge through: no filter, or its type is listed.
PassesTypeFilter(input, attrs) ==
    \/ ~Has(input, "traversal_options")
    \/ ~Has(input.traversal_options, "edge_types_filter")
    \/ \E i \in DOMAIN input.traversal_options.edge_types_filter :
           input.traversal_options.edge_types_filter[i]
               = GetAttribute(attrs, "type")

\* result_options?.composition || "nodes_and_edges"
Composition(input) ==
    IF Has(input, "result_options")
       /\ Has(input.result_options, "composition")
    THEN input.result_options.composition
    ELSE "nodes_and_edges"

\* The edges edgeIterationFn reports for a node: forEachOutEdge and
\* forEachInEdge report directed edges, forEachEdge every edge at the node.
EdgesOf(g, nodeId, direction) ==
    {e \in g.edges :
        IF direction = "outgoing" THEN ~e.undirected /\ e.source = nodeId
        ELSE IF direction = "incoming" THEN ~e.undirected /\ e.target = nodeId
        ELSE nodeId \in {e.source, e.target}}

EdgeResult(e) ==
    [id |-> e.key, source |-> e.source, target |-> e.target,
     attributes |-> e.attributes]

NodeResult(g, nodeId) ==
    [id |-> nodeId, attributes |-> GetNodeAttributes(g, nodeId)]

\* The callback of the edge iteration for one edge of nodeId.
CollectEdge(g, input, st, nodeId, e) ==
    LET neighbor == IF e.source = nodeId THEN e.target ELSE e.source
    IN  IF ~PassesTypeFilter(input, e.attributes) THEN st
        ELSE IF /\ e.key \notin st.collectedEdgesSet
                /\ CheckConditions(e.attributes, EdgeConditions(input))
                /\ CheckConditions(GetNodeAttributes(g, nodeId),
                                   NodeConditions(input))
                /\ CheckConditions(GetNodeAttributes(g, neighbor),
                                   NodeConditions(input))
        THEN [st EXCEPT !.collectedEdges = Append(@, EdgeResult(e)),
                        !.collectedEdgesSet = @ \cup {e.key}]
        ELSE st

\* The edge iteration of one node; the edges come in some fixed order.
RECURSIVE ForEachEdgeOf(_, _, _, _, _)
ForEachEdgeOf(g, input, st, nodeId, edges) ==
    IF edges = {} THEN st
    ELSE LET e == CHOOSE x \in edges : TRUE
         IN  ForEachEdgeOf(g, input, CollectEdge(g, input, st, nodeId, e),
                           nodeId, edges \ {e})

\* The callback given to bfsFromNode, for a node at a depth <= maxDepth.
TraversalCallback(g, input, st, nodeId) ==
    LET shouldAddNode ==
            /\ nodeId \notin st.visitedNodes
            /\ CheckConditions(GetNodeAttributes(g, nodeId),
                               NodeConditions(input))
        added == IF shouldAddNode
                 THEN [st EXCEPT
                          !.collectedNodes = Append(@, NodeResult(g, nodeId)),
                          !.visitedNodes = @ \cup {nodeId}]
                 ELSE st
    IN  ForEachEdgeOf(g, input, added, nodeId,
                      EdgesOf(g, nodeId, TraversalDirection(input)))

\* The elements of a set, in some fixed order.
RECURSIVE SeqOf(_)
SeqOf(S) ==
    IF S = {} THEN <<>>
    ELSE LET x == CHOOSE y \in S : TRUE IN <<x>> \o SeqOf(S \ {x})

\* The neighbours bfsFromNode goes on to from a node when it takes the
\* direction for its mode: those over outgoing edges, over incoming
\* edges, or all of them.
ModeNeighbors(g, nodeId, direction) ==
    NeighborsOf(g, nodeId,
                IF direction = "outgoing" THEN "outbound"
                ELSE IF direction = "incoming" THEN "inbound"
                ELSE "all")

\* bfsFromNode(graph, startNodeId, callback, { mode: direction }): the
\* library's queue of (node, depth) records and its set of seen nodes.  A
\* callback that returns true (depth > maxDepth) ends the branch.
RECURSIVE BfsFromNode(_, _, _, _, _)
BfsFromNode(g, input, st, queue, seen) ==
    IF queue = <<>> THEN st
    ELSE LET record == Head(queue)
             stop == record.depth > TraversalMaxDepth(input)
             fresh == IF stop THEN {}
                      ELSE ModeNeighbors(g, record.node,
                                         TraversalDirection(input)) \ seen
             pushed == [i \in 1..Cardinality(fresh) |->
                           [node |-> SeqOf(fresh)[i],
                            depth |-> record.depth + 1]]
         IN  BfsFromNode(g, input,
                         IF stop THEN st
                         ELSE TraversalCallback(g, input, st, record.node),
                         Tail(queue) \o pushed, seen \cup fresh)

\* The loop over start_node_ids: an id that is no node is skipped.
RECURSIVE ForEachStartNode(_, _, _, _)
ForEachStartNode(g, input, st, ids) ==
    IF ids = <<>> THEN st
    ELSE IF ~HasNode(g, Head(ids))
    THEN ForEachStartNode(g, input, st, Tail(ids))
    ELSE ForEachStartNode(g, input,
             BfsFromNode(g, input, st,
                         <<[node |-> Head(ids), depth |-> 0]>>, {Head(ids)}),
             Tail(ids))

\* What a step of the try block comes to: an exception or a value.
Threw(message) == [threw |-> TRUE, message |-> message]

Returned(nodes, edges, path) ==
    [threw |-> FALSE, nodes |-> nodes, edges |-> edges, path |-> path]

\* The calls into graphology-traversal and graphology-shortest-path are
\* outside what those libraries document: 'outgoing', 'incoming' and
\* 'any' are not among their traversal modes (in, out, inbound, outbound,
\* directed, undirected), the weight callback takes the edge attributes
\* as its sixth argument where the library passes them second, and
\* edgePathFromNodePath asks Graph.edge(source, target), which a
\* MultiGraph refuses.  Such a call either does what the caller means
\* (tolerant) or throws.
ModeError == "Cannot read properties of undefined (reading 'bind')"

WeightError == "Cannot read properties of undefined (reading 'weight')"

EdgeError == "Graph.edge: this method is irrelevant with multigraphs"

\* The traversal branch of the try block.
Traversal(g, input, tolerant) ==
    IF ~Has(input, "start_node_ids") \/ input.start_node_ids = <<>>
    THEN {Threw("Missing start_node_ids for traversal query.")}
    ELSE IF TraversalAlgorithm(input) # "bfs"
    THEN {Threw("Traversal algorithm '" \o TraversalAlgorithm(input)
                    \o "' not yet implemented here.")}
    ELSE IF ~tolerant /\ \E i \in DOMAIN input.start_node_ids :
                               HasNode(g, input.start_node_ids[i])
    THEN {Threw(ModeError)}
    ELSE LET st == ForEachStartNode(g, input,
                       [visitedNodes |-> {}, collectedNodes |-> <<>>,
                        collectedEdges |-> <<>>, collectedEdgesSet |-> {}],
                       input.start_node_ids)
         IN  {Returned(st.collectedNodes, st.collectedEdges, NullPath)}

\* getEdgeWeight as queryGraphAdvanced builds it when the input names no
\* weight: edgeAttrs['weight'] || 1, so a missing weight and a weight of 0
\* both count 1.
GetEdgeWeight(attrs) ==
    IF Has(attrs, "weight") /\ attrs.weight # 0 THEN attrs.weight ELSE 1

\* The edges Dijkstra may take from source to target (outbound edges).
EdgesBetween(g, source, target) ==
    {e \in g.edges :
        \/ e.source = source /\ e.target = target
        \/ e.undirected /\ e.source = target /\ e.target = source}

\* The node sequences without repetition that follow outbound edges.
NodePaths(g, source, target) ==
    LET ids == {n.key : n \in g.nodes}
    IN  {p \in UNION {[1..n -> ids] : n \in 1..Cardinality(ids)} :
            /\ p[1] = source
            /\ p[Len(p)] = target
            /\ \A i, j \in 1..Len(p) : p[i] = p[j] => i = j
            /\ \A i \in 1..(Len(p) - 1) :
                   EdgesBetween(g, p[i], p[i + 1]) # {}}

\* The smallest number of a non-empty set of numbers.
Least(S) == CHOOSE x \in S : \A y \in S : x <= y

RECURSIVE Sum(_)
Sum(seq) == IF seq = <<>> THEN 0 ELSE Head(seq) + Sum(Tail(seq))

\* What Dijkstra takes a node path to weigh: the lightest edge of every
\* step.
PathWeight(g, p) ==
    Sum([i \in 1..(Len(p) - 1) |->
            Least({GetEdgeWeight(e.attributes) :
                      e \in EdgesBetween(g, p[i], p[i + 1])})])

\* dijkstra.bidirectional: the node paths of least weight; none when the
\* target cannot be reached.
Dijkstra(g, source, target) ==
    {p \in NodePaths(g, source, target) :
        \A q \in NodePaths(g, source, target) :
            PathWeight(g, p) <= PathWeight(g, q)}

\* The search asks for the weight of an edge: it starts with the outbound
\* edges of the source and the inbound edges of the target.
DijkstraWeighsAnEdge(g, source, target) ==
    /\ source # target
    /\ \E e \in g.edges :
           \/ e.source = source \/ (e.undirected /\ e.target = source)
           \/ e.target = target \/ (e.undirected /\ e.source = target)

\* edgePathFromNodePath: one edge for every step of the node path.
EdgePathFromNodePath(g, p) ==
    {edges \in [1..(Len(p) - 1) -> g.edges] :
        \A i \in 1..(Len(p) - 1) :
            edges[i] \in EdgesBetween(g, p[i], p[i + 1])}

\* output.path for a node path and an edge path.
PathResult(g, nodePath, edgePath) ==
    [nodes |-> [i \in 1..Len(nodePath) |-> NodeResult(g, nodePath[i])],
     edges |-> [i \in 1..Len(edgePath) |-> EdgeResult(edgePath[i])],
     cost |-> Sum([i \in 1..Len(edgePath) |->
                      GetEdgeWeight(edgePath[i].attributes)])]

\* The shortest_path branch of the try block.
ShortestPath(g, input, tolerant) ==
    IF \/ ~Has(input, "start_node_ids") \/ input.start_node_ids = <<>>
       \/ ~Has(input, "target_node_id") \/ ~Truthy(input.target_node_id)
    THEN {Threw("Missing start_node_ids or target_node_id for shortest_path query.")}
    ELSE LET startNodeId == input.start_node_ids[1]
             target == input.target_node_id
         IN  IF ~HasNode(g, startNodeId) \/ ~HasNode(g, target)
             THEN {Threw("Start or target node not found in graph.")}
             ELSE IF ~tolerant /\ DijkstraWeighsAnEdge(g, startNodeId, target)
             THEN {Threw(WeightError)}
             ELSE IF Dijkstra(g, startNodeId, target) = {}
             THEN {Returned(<<>>, <<>>, NullPath)}
             ELSE IF ~tolerant
             THEN {Threw(EdgeError)}
             ELSE UNION {{Returned(<<>>, <<>>, PathResult(g, p, x)) :
                             x \in EdgePathFromNodePath(g, p)} :
                                p \in Dijkstra(g, startNodeId, target)}

\* For comparison: a try block that takes every query_type it does not
\* know for a traversal.
TryBlockDefaultsToTraversal(g, input, tolerant) ==
    IF input.query_type = "shortest_path"
    THEN ShortestPath(g, input, tolerant)
    ELSE Traversal(g, input, tolerant)

\* The try block: the ways it can end.
TryBlock(g, input, tolerant) ==
    IF input.query_type = "traversal" THEN Traversal(g, input, tolerant)
    ELSE IF input.query_type = "shortest_path"
    THEN ShortestPath(g, input, tolerant)
    ELSE {Threw("Unsupported query_type: " \o input.query_type)}

\* output after the try block: the catch sets the error and empties the
\* rest.
Caught(input, outcome) ==
    IF outcome.threw
    THEN [query_type |-> input.query_type, nodes |-> <<>>, edges |-> <<>>,
          paths |-> <<>>, path |-> NullPath, error |-> outcome.message]
    ELSE [query_type |-> input.query_type, nodes |-> outcome.nodes,
          edges |-> outcome.edges, paths |-> <<>>, path |-> outcome.path,
          error |-> NULL]

\* The fields of the output the composition keeps, and the clean-up after
\* it (which takes path away from a traversal result without paths).
Compose(input, output) ==
    LET found == input.query_type = "shortest_path"
                 /\ output.path # NullPath
    IN  IF Composition(input) = "nodes_only"
        THEN Delete(output, {"edges", "paths", "path"})
        ELSE IF Composition(input) = "nodes_and_edges"
        THEN IF found
             THEN Delete([output EXCEPT !.nodes = output.path.nodes,
                                        !.edges = output.path.edges],
                         {"paths", "path"})
             ELSE Delete(output, {"paths"}
                         \cup IF input.query_type # "shortest_path"
                              THEN {"path"} ELSE {})
        ELSE IF Composition(input) = "paths"
        THEN IF found
             THEN Delete([output EXCEPT !.paths = <<output.path>>],
                         {"nodes", "edges", "path"})
             ELSE Delete(output, {"nodes", "edges"})
        ELSE Delete(output, {"nodes", "edges", "paths"}
                    \cup IF input.query_type # "shortest_path"
                         THEN {"path"} ELSE {})

\* queryGraphAdvanced: the outputs it can return for an input.
QueryGraphAdvanced(g, input, tolerant) ==
    {Compose(input, Caught(input, outcome)) :
        outcome \in TryBlock(g, input, tolerant)}

\* Three entities: B is a function between the classes A and C.
QueryEntities ==
    {[id |-> "A", type |-> "class", attributes |-> NoAttrs],
     [id |-> "B", type |-> "function", attributes |-> NoAttrs],
     [id |-> "C", type |-> "class", attributes |-> NoAttrs]}

\* A -> B -> C and A -> C with weights 2, 2 and 10, and the same three
\* steps with weights 0, 0 and 1.
QueryRelations ==
    {[id |-> "ab", source |-> "A", target |-> "B", type |-> "calls",
      attributes |-> [weight |-> 2]],
     [id |-> "bc", source |-> "B", target |-> "C", type |-> "calls",
      attributes |-> [weight |-> 2]],
     [id |-> "ac", source |-> "A", target |-> "C", type |-> "imports",
      attributes |-> [weight |-> 10]],
     [id |-> "ab0", source |-> "A", target |-> "B", type |-> "calls",
      attributes |-> [weight |-> 0]],
     [id |-> "bc0", source |-> "B", target |-> "C", type |-> "imports",
      attributes |-> [weight |-> 0]],
     [id |-> "ac1", source |-> "A", target |-> "C", type |-> "calls",
      attributes |-> [weight |-> 1]]}

Compositions == {"nodes_only", "nodes_and_edges", "paths"}

IsClass == <<[attribute |-> "type", operator |-> "equals", value |-> "class"]>>

IsCalls == <<[attribute |-> "type", operator |-> "equals", value |-> "calls"]>>

\* The options of a traversal; "Z" is the id of no node.
TraversalOptions ==
    {[max_depth |-> d, direction |-> dir] :
        d \in 1..MaxDepth, dir \in {"outgoing", "incoming", "any"}}
    \cup {[max_depth |-> MaxDepth, direction |-> "outgoing",
           edge_types_filter |-> <<"calls">>],
          [algorithm |-> "dfs"]}

TraversalInputs ==
    LET starts == {<<"Z">>, <<"Z", "A">>, <<"B">>}
        plain == [query_type : {"traversal"}, start_node_ids : starts,
                  traversal_options : TraversalOptions,
                  result_options : [composition : Compositions]]
    IN  plain
        \cup {AssignAttrs(i, [node_conditions |-> IsClass]) : i \in plain}
        \cup {AssignAttrs(i, [edge_conditions |-> IsCalls]) : i \in plain}
        \cup {[query_type |-> "traversal"],
              [query_type |-> "traversal", start_node_ids |-> <<>>],
              [query_type |-> "traversal", start_node_ids |-> <<"A">>]}

ShortestPathInputs ==
    LET pairs == [query_type : {"shortest_path"},
                  start_node_ids : {<<"A">>, <<"C">>, <<"Z">>},
                  target_node_id : {"A", "C", "Z"},
                  result_options : [composition : Compositions]]
    IN  pairs
        \cup {[query_type |-> "shortest_path"],
              [query_type |-> "shortest_path", target_node_id |-> "C"],
              [query_type |-> "shortest_path", start_node_ids |-> <<"A">>],
              [query_type |-> "shortest_path", start_node_ids |-> <<"A">>,
               target_node_id |-> ""]}

QueryInputs ==
    TraversalInputs \cup ShortestPathInputs
    \cup [query_type : {"search"}, start_node_ids : {<<"A">>},
          result_options : [composition : Compositions]]

\* In QuerySpec graph is the graph of a GraphologyManager that is loaded;
\* nothing is saved, and call is the query whose result is at hand.
QueryInit ==
    /\ graph = EmptyGraph
    /\ store = NoFile
    /\ outage = FALSE
    /\ call = [phase |-> "idle"]

QueryCreateEntities ==
    \E entity \in QueryEntities :
        /\ CanCall
        /\ graph' = CreateEntities(graph, <<entity>>).graph
        /\ UNCHANGED <<store, outage, call>>

QueryCreateRelations ==
    \E relation \in QueryRelations :
        /\ CanCall
        /\ graph' = CreateRelations(graph, <<relation>>).graph
        /\ UNCHANGED <<store, outage, call>>

QueryDeleteEntities ==
    \E entity \in QueryEntities :
        /\ CanCall
        /\ graph' = DeleteEntities(graph, <<entity.id>>).graph
        /\ UNCHANGED <<store, outage, call>>

QueryGraphAdvancedCall ==
    /\ CanCall
    /\ \E input \in QueryInputs, tolerant \in BOOLEAN :
           \E output \in QueryGraphAdvanced(graph, input, tolerant) :
               call' = [phase |-> "read", op |-> "queryGraphAdvanced",
                        args |-> input, tolerant |-> tolerant,
                        result |-> output]
    /\ UNCHANGED <<graph, store, outage>>

QueryNext ==
    \/ QueryCreateEntities
    \/ QueryCreateRelations
    \/ QueryDeleteEntities
    \/ QueryGraphAdvancedCall
    \/ Respond

QuerySpec == QueryInit /\ [][QueryNext]_vars

----------------------------------------------------------------------------
(* analyze_codebase, and the tool calls that arrive while it waits *)

\* The files the patterns of a call match; the splitter finds one chunk in
\* each.  Line numbers are written as text.
SourceFiles == {"f1", "f2"}

SplitText(filePath) ==
    <<[type |-> "function_declaration", startLine |-> "1", endLine |-> "3",
       content |-> "c"]>>

FileNodeId(filePath) == "file:" \o filePath

ChunkNodeId(filePath, chunk) ==
    "code:" \o filePath \o "#" \o chunk.type \o "_" \o chunk.startLine
        \o "_" \o chunk.endLine

ChunkNodeAttrs(filePath, chunk) ==
    [type |-> chunk.type,
     name |-> chunk.type \o " (" \o filePath \o ":" \o chunk.startLine
                  \o "-" \o chunk.endLine \o ")",
     filePath |-> filePath,
     startLine |-> chunk.startLine,
     endLine |-> chunk.endLine,
     content |-> chunk.content,
     identifier |-> UNDEF]

ContainsKey(fileNodeId, chunkNodeId) ==
    fileNodeId \o "->contains->" \o chunkNodeId

\* One turn of chunks.forEach.
AnalyzeChunk(st, filePath, chunk) ==
    LET fileNodeId == FileNodeId(filePath)
        chunkNodeId == ChunkNodeId(filePath, chunk)
        edgeKey == ContainsKey(fileNodeId, chunkNodeId)
    IN  IF HasNode(st.graph, chunkNodeId)
        THEN [st EXCEPT !.graph = MergeNodeAttributes(@, chunkNodeId,
                                      ChunkNodeAttrs(filePath, chunk))]
        ELSE LET added == AddNode(st.graph, chunkNodeId,
                                  ChunkNodeAttrs(filePath, chunk))
             IN  IF HasEdge(added, edgeKey)
                    \/ AddEdgeThrows(added, edgeKey, fileNodeId, chunkNodeId)
                 THEN [st EXCEPT !.graph = added,
                                 !.entitiesCreated = @ + 1]
                 ELSE [st EXCEPT
                          !.graph = AddEdgeWithKey(added, edgeKey, fileNodeId,
                                        chunkNodeId, [type |-> "contains"]),
                          !.entitiesCreated = @ + 1,
                          !.relationsCreated = @ + 1]

RECURSIVE ForEachChunk(_, _, _)
ForEachChunk(st, filePath, chunks) ==
    IF chunks = <<>> THEN st
    ELSE ForEachChunk(AnalyzeChunk(st, filePath, Head(chunks)), filePath,
                      Tail(chunks))

\* What analyzeCodebase does with one file once its text is read: the file
\* node when there is none, then the chunks.
AnalyzeFile(st, filePath) ==
    LET fileNodeId == FileNodeId(filePath)
        withFile ==
            IF HasNode(st.graph, fileNodeId) THEN st
            ELSE [st EXCEPT
                     !.graph = AddNode(@, fileNodeId,
                                   [type |-> "file", name |-> filePath,
                                    filePath |-> filePath]),
                     !.entitiesCreated = @ + 1]
    IN  ForEachChunk(withFile, filePath, SplitText(filePath))

\* filePaths of a call: up to MaxBatch files.
FilePaths ==
    {files \in Batches(SourceFiles) :
        \A i, j \in DOMAIN files : files[i] = files[j] => i = j}

NoTask == [at |-> "none"]

\* In AnalyzeSpec call.analysis is the analyze_codebase call in progress,
\* call.other another tool call; McpServer starts the handler of a request
\* when the request arrives.  call.writes are the writeFile calls that have
\* not ended.
AnalyzeInit ==
    /\ graph = EmptyGraph
    /\ store = NoFile
    /\ outage = FALSE
    /\ call = [analysis |-> NoTask, other |-> NoTask, writes |-> {}]

\* analyzeCodebase up to its first await.
AnalyzeCodebaseBegin ==
    /\ call.analysis = NoTask
    /\ \E filePaths \in FilePaths :
           call' = [call EXCEPT !.analysis =
                       [at |-> IF filePaths = <<>> THEN "save" ELSE "read",
                        files |-> filePaths, applied |-> 0,
                        analyzedFiles |-> Len(filePaths),
                        entitiesCreated |-> 0, relationsCreated |-> 0]]
    /\ UNCHANGED <<graph, store, outage>>

\* await fs.readFile has ended: the changes for this file, up to the await
\* for the next one.
AnalyzeCodebaseFile ==
    /\ call.analysis.at = "read"
    /\ LET st == AnalyzeFile([graph |-> graph,
                              entitiesCreated |-> call.analysis.entitiesCreated,
                              relationsCreated |-> call.analysis.relationsCreated],
                             Head(call.analysis.files))
           rest == Tail(call.analysis.files)
       IN  /\ graph' = st.graph
           /\ call' = [call EXCEPT !.analysis =
                          [@ EXCEPT !.at = IF rest = <<>> THEN "save" ELSE "read",
                                    !.files = rest,
                                    !.applied = @ + 1,
                                    !.entitiesCreated = st.entitiesCreated,
                                    !.relationsCreated = st.relationsCreated]]
    /\ UNCHANGED <<store, outage>>

\* fs.readFile has failed: the error is logged, the file is left out.
AnalyzeCodebaseFileFails ==
    /\ call.analysis.at = "read"
    /\ LET rest == Tail(call.analysis.files)
       IN  call' = [call EXCEPT !.analysis =
                       [@ EXCEPT !.at = IF rest = <<>> THEN "save" ELSE "read",
                                 !.files = rest]]
    /\ UNCHANGED <<graph, store, outage>>

\* saveGraph at the end of analyzeCodebase, then persistGraph of
\* KnowledgeGraphManager.analyzeCodebase: each builds the text and starts
\* a write.
AnalyzeCodebaseSave ==
    /\ call.analysis.at \in {"save", "persist"}
    /\ \A w \in call.writes : w.owner # "analysis"
    /\ call' = [call EXCEPT
                   !.analysis.at = IF @ = "save" THEN "saving" ELSE "persisting",
                   !.writes = @ \cup {[owner |-> "analysis",
                                       data |-> SaveGraphData(graph)]}]
    /\ UNCHANGED <<graph, store, outage>>

\* A writeFile ends: the file holds its text, the call that waits goes on.
WriteFileEnds ==
    \E w \in call.writes :
        /\ store' = [exists |-> TRUE, text |-> w.data]
        /\ call' = [call EXCEPT
                       !.writes = @ \ {w},
                       !.analysis = IF w.owner # "analysis" THEN @
                                    ELSE IF @.at = "saving"
                                    THEN [@ EXCEPT !.at = "persist"]
                                    ELSE NoTask,
                       !.other = IF w.owner = "other" THEN NoTask ELSE @]
        /\ UNCHANGED <<graph, outage>>

\* Is the analysis between two of its files?
PartlyApplied ==
    /\ call.analysis.at = "read"
    /\ call.analysis.applied > 0

\* read_graph arrives.
ToolReadGraph ==
    /\ call.other = NoTask
    /\ call' = [call EXCEPT !.other =
                   [at |-> "read", op |-> "readGraph",
                    result |-> ReadGraph(graph, NoAttrs)]]
    /\ UNCHANGED <<graph, store, outage>>

\* delete_entities arrives: the change, then persistGraph.
ToolDeleteEntities ==
    /\ call.other = NoTask
    /\ \E filePath \in SourceFiles :
           LET r == DeleteEntities(graph, <<FileNodeId(filePath)>>)
           IN  /\ graph' = r.graph
               /\ call' = [call EXCEPT
                              !.other = [at |-> "saving",
                                         op |-> "deleteEntities",
                                         result |-> r],
                              !.writes = @ \cup
                                  {[owner |-> "other",
                                    data |-> SaveGraphData(r.graph)]}]
    /\ UNCHANGED <<store, outage>>

\* The result of read_graph goes to the client.
ToolResponds ==
    /\ call.other.at = "read"
    /\ call' = [call EXCEPT !.other = NoTask]
    /\ UNCHANGED <<graph, store, outage>>

AnalyzeNext ==
    \/ AnalyzeCodebaseBegin
    \/ AnalyzeCodebaseFile
    \/ AnalyzeCodebaseFileFails
    \/ AnalyzeCodebaseSave
    \/ WriteFileEnds
    \/ ToolReadGraph
    \/ ToolDeleteEntities
    \/ ToolResponds

AnalyzeSpec == AnalyzeInit /\ [][AnalyzeNext]_vars

----------------------------------------------------------------------------
(* KnowledgeGraphManager: two mutating tool calls that overlap *)

\* The clients' calls in progress; a second request is handled while the
\* first one awaits its save.
Callers == {1, 2}

\* In OverlapSpec call.tasks[c] is the call of caller c: it changes the
\* graph and starts its write in one piece ("saving"), and has returned
\* when its write has ended ("acked"); overlapped tells that it came while
\* the call the other caller still has was awaiting its save.  call.writes
\* are the writeFile calls that have not ended; they end in any order.
OverlapInit ==
    /\ graph = EmptyGraph
    /\ store = NoFile
    /\ outage = FALSE
    /\ call = [tasks |-> [c \in Callers |-> NoTask], writes |-> {}]

\* A delegated mutator of caller c up to its await.
OverlapMutate(c, op, args, r) ==
    /\ call.tasks[c] = NoTask
    /\ graph' = r.graph
    /\ call' = [tasks |-> [call.tasks EXCEPT ![c] =
                              [at |-> "saving", op |-> op, args |-> args,
                               result |-> r,
                               data |-> SaveGraphData(r.graph),
                               overlapped |->
                                   \E d \in Callers :
                                       call.tasks[d].at = "saving"]],
                writes |-> call.writes \cup
                              {[owner |-> c,
                                data |-> SaveGraphData(r.graph)]}]
    /\ UNCHANGED <<store, outage>>

\* The calls that overlap have one item each.
OneItem(S) == {<<x>> : x \in S}

OverlapCreateEntities ==
    \E c \in Callers, entities \in OneItem(EntityInputs) :
        OverlapMutate(c, "createEntities", entities,
                      CreateEntities(graph, entities))

OverlapDeleteEntities ==
    \E c \in Callers, ids \in OneItem(NodeIds) :
        OverlapMutate(c, "deleteEntities", ids, DeleteEntities(graph, ids))

\* A writeFile ends: the file holds its text, and the call that awaited it
\* returns its result.
OverlapWriteFileEnds ==
    \E w \in call.writes :
        /\ store' = [exists |-> TRUE, text |-> w.data]
        /\ call' = [tasks |-> [call.tasks EXCEPT ![w.owner].at = "acked"],
                    writes |-> call.writes \ {w}]
        /\ UNCHANGED <<graph, outage>>

\* The result of a call has gone to its client; no call overlaps with it
\* any more.
OverlapRespond ==
    \E c \in Callers :
        /\ call.tasks[c].at = "acked"
        /\ call' = [call EXCEPT !.tasks =
                       [d \in Callers |->
                           IF d = c \/ call.tasks[d] = NoTask THEN NoTask
                           ELSE [call.tasks[d] EXCEPT !.overlapped = FALSE]]]
        /\ UNCHANGED <<graph, store, outage>>

OverlapNext ==
    \/ OverlapCreateEntities
    \/ OverlapDeleteEntities
    \/ OverlapWriteFileEnds
    \/ OverlapRespond

OverlapSpec == OverlapInit /\ [][OverlapNext]_vars

----------------------------------------------------------------------------
(* GraphManager: GraphHandler's graph, loaded from and saved to the lines *)
(* of FileHandler's file                                                  *)

MaxVersion == 2

\* createMetadata and updateMetadata; the version is a decimal numeral in
\* the code, parsed and written again at every update.  The time stamps
\* are left out.
CreateMetadata == [version |-> 1]

UpdateMetadata(existingMetadata) ==
    [existingMetadata EXCEPT !.version = @ + 1]

\* JSON.stringify of an entity or a relation, one line of the file; a
\* line is modelled by the item it denotes.
JsonLine(item) == [wellFormed |-> TRUE, value |-> item]

\* The file at memoryFilePath: its non-empty lines.
NoLines == [exists |-> FALSE, lines |-> {}]

\* A file that saveGraphToStore wrote in an earlier run.
EarlierEntity ==
    [id |-> "a", name |-> "n", entityType |-> "class",
     metadata |-> CreateMetadata, observations |-> <<>>]

EarlierLines == [exists |-> TRUE, lines |-> {JsonLine(EarlierEntity)}]

\* The same file with a second line that was cut short.
CutLines ==
    [exists |-> TRUE,
     lines |-> {JsonLine(EarlierEntity),
                [wellFormed |-> FALSE,
                 value |-> [id |-> "b", name |-> "n"]]}]

\* loadGraphFromStore, the callback of lines.forEach: JSON.parse in a
\* try whose catch is empty, then the item is taken for a relation, for
\* an entity or for nothing.
IsRelationItem(item) ==
    /\ Has(item, "from") /\ Truthy(item.from)
    /\ Has(item, "to") /\ Truthy(item.to)
    /\ Has(item, "relationType") /\ Truthy(item.relationType)

IsEntityItem(item) ==
    /\ ~IsRelationItem(item)
    /\ Has(item, "name") /\ Truthy(item.name)
    /\ Has(item, "entityType") /\ Truthy(item.entityType)

ParsedItems(lines) == {line.value : line \in {l \in lines : l.wellFormed}}

\* initializeGraph, relations.forEach: addDirectedEdgeWithKey and
\* addUndirectedEdgeWithKey throw when an end is no node or the key is
\* taken, and the rest is not added.  The lines come in some fixed order.
RECURSIVE InitializeEdges(_, _)
InitializeEdges(st, relations) ==
    IF relations = {} \/ st.threw THEN st
    ELSE LET relation == CHOOSE r \in relations : TRUE
         IN  IF HasEdge(st.graph, relation.id)
                \/ AddEdgeThrows(st.graph, relation.id, relation.from,
                                 relation.to)
             THEN [st EXCEPT !.threw = TRUE]
             ELSE InitializeEdges(
                      [st EXCEPT !.graph = AddRelationEdge(@, relation)],
                      relations \ {relation})

\* initializeGraph: the graph is cleared, then every entity becomes a
\* node and every relation an edge from relation.from to relation.to.
InitializeGraph(entities, relations) ==
    InitializeEdges(
        [graph |-> [nodes |-> {[key |-> entity.id, attributes |-> entity] :
                                  entity \in entities},
                    edges |-> {}],
         threw |-> FALSE],
        relations)

\* exportGraphNodesAndEdges and the lines saveGraphToStore makes of it.
ExportLines(g) ==
    {JsonLine(n.attributes) : n \in g.nodes}
    \cup {JsonLine(RelationOutput(e)) : e \in g.edges}

\* loadGraphFromStore: loadData gives no lines when there is no file and
\* throws when the file cannot be read; isLoaded is set after
\* initializeGraph has returned.
LoadGraphFromStore(g, file, readOk) ==
    IF file.exists /\ ~readOk
    THEN [graph |-> g, isLoaded |-> FALSE, threw |-> TRUE]
    ELSE LET items == ParsedItems(file.lines)
             init == InitializeGraph({i \in items : IsEntityItem(i)},
                                     {i \in items : IsRelationItem(i)})
         IN  [graph |-> init.graph, isLoaded |-> ~init.threw,
              threw |-> init.threw]

\* For comparison: a save that does not look at isLoaded.
SaveGraphToStoreUnguarded(g, isLoaded, file, writeOk) ==
    IF ~writeOk THEN [store |-> file, threw |-> TRUE]
    ELSE [store |-> [exists |-> TRUE, lines |-> ExportLines(g)],
          threw |-> FALSE]

\* saveGraphToStore: nothing while isLoaded is false; saveData replaces
\* the file or throws.
SaveGraphToStore(g, isLoaded, file, writeOk) ==
    IF ~isLoaded THEN [store |-> file, threw |-> FALSE]
    ELSE IF ~writeOk THEN [store |-> file, threw |-> TRUE]
    ELSE [store |-> [exists |-> TRUE, lines |-> ExportLines(g)],
          threw |-> FALSE]

\* if (!this.isLoaded) await this.loadGraphFromStore(), the first line of
\* every operation.
EnsureLoaded(g, isLoaded, file, readOk) ==
    IF isLoaded THEN [graph |-> g, isLoaded |-> TRUE, threw |-> FALSE]
    ELSE LoadGraphFromStore(g, file, readOk)

\* updateRelationEdgeAttributes: every key of the update but id is set as
\* an attribute of the edge; the edge stays where it is.
UpdateRelationEdgeAttributes(g, relationId, attributesToUpdate) ==
    [g EXCEPT !.edges =
        {IF e.key # relationId THEN e
         ELSE [e EXCEPT !.attributes =
                  AssignAttrs(@, Delete(attributesToUpdate, {"id"}))] :
             e \in @}]

\* The ids uuidv4 gives, and what the callers pass.
EntityIds == {"a", "b"}

RelationIds == {"r1", "r2"}

EntityData == {[name |-> "n", entityType |-> "class"]}

RelationData ==
    [from : EntityIds, to : EntityIds, relationType : {"CALLS"},
     undirected : {FALSE}]
    \cup {[from |-> "a", to |-> "b", relationType |-> "CALLS",
           undirected |-> TRUE]}

RelationUpdates ==
    {[relationType |-> "USES"], [to |-> "a"], [from |-> "b"]}

\* In ManagerSpec graph is the graph of the GraphHandler, store the file
\* of the FileHandler, call the operation that returned last with
\* GraphManager.isLoaded, and outage tells that reading and writing the
\* file may fail.  The caller awaits every operation.
ManagerInit ==
    /\ graph = EmptyGraph
    /\ store \in {NoLines, EarlierLines, CutLines}
    /\ outage \in BOOLEAN
    /\ call = [isLoaded |-> FALSE, op |-> "none"]

\* An operation has come to its end: in memory g, with the save (when it
\* makes one) done or failed.  An outage ends with the first access to
\* the file that succeeds.
Settle(op, args, loaded, g, saves, readOk, writeOk) ==
    LET saved == IF saves
                 THEN SaveGraphToStore(g, loaded.isLoaded, store, writeOk)
                 ELSE [store |-> store, threw |-> FALSE]
        read == ~call.isLoaded /\ store.exists /\ readOk
        written == saves /\ loaded.isLoaded /\ writeOk
    IN  /\ outage \/ (readOk /\ writeOk)
        /\ graph' = g
        /\ store' = saved.store
        /\ outage' = (outage /\ ~read /\ ~written)
        /\ call' = [isLoaded |-> loaded.isLoaded, op |-> op, args |-> args,
                    loadedNow |-> ~call.isLoaded /\ loaded.isLoaded,
                    outcome |-> IF loaded.threw \/ saved.threw
                                THEN "error" ELSE "ok"]

\* An operation whose load failed rejects there.
Operation(op, args, loaded, g, saves, readOk, writeOk) ==
    IF loaded.threw
    THEN Settle(op, args, loaded, loaded.graph, FALSE, readOk, TRUE)
    ELSE Settle(op, args, loaded, g, saves, readOk, writeOk)

ManagerLoadGraphFromStore ==
    \E readOk \in BOOLEAN :
        LET loaded == LoadGraphFromStore(graph, store, readOk)
        IN  /\ outage \/ readOk
            /\ graph' = loaded.graph
            /\ store' = store
            /\ outage' = (outage /\ ~(store.exists /\ readOk))
            /\ call' = [isLoaded |-> IF loaded.threw THEN call.isLoaded
                                     ELSE TRUE,
                        op |-> "loadGraphFromStore", args |-> <<>>,
                        loadedNow |-> ~loaded.threw,
                        outcome |-> IF loaded.threw THEN "error" ELSE "ok"]

ManagerSaveGraphToStore ==
    \E writeOk \in BOOLEAN :
        Settle("saveGraphToStore", <<>>,
               [graph |-> graph, isLoaded |-> call.isLoaded,
                threw |-> FALSE],
               graph, TRUE, TRUE, writeOk)

\* createEntities with one entity; uuidv4 gives an id no node has.
ManagerCreateEntities ==
    \E entityData \in EntityData, id \in EntityIds,
       readOk \in BOOLEAN, writeOk \in BOOLEAN :
        LET loaded == EnsureLoaded(graph, call.isLoaded, store, readOk)
            newEntity == [id |-> id, name |-> entityData.name,
                          entityType |-> entityData.entityType,
                          metadata |-> CreateMetadata,
                          observations |-> <<>>]
        IN  /\ ~HasNode(loaded.graph, id)
            /\ Operation("createEntities", <<entityData>>, loaded,
                         AddEntityNode(loaded.graph, newEntity), TRUE,
                         readOk, writeOk)

\* createRelations with one relation: addRelationEdge throws when an end
\* is no node, and createRelations rejects before it saves.
ManagerCreateRelations ==
    \E relationData \in RelationData, id \in RelationIds,
       readOk \in BOOLEAN, writeOk \in BOOLEAN :
        LET loaded == EnsureLoaded(graph, call.isLoaded, store, readOk)
            newRelation == [id |-> id, from |-> relationData.from,
                            to |-> relationData.to,
                            relationType |-> relationData.relationType,
                            undirected |-> relationData.undirected,
                            metadata |-> CreateMetadata]
            throws == AddEdgeThrows(loaded.graph, id, relationData.from,
                                    relationData.to)
        IN  /\ ~HasEdge(loaded.graph, id)
            /\ IF throws /\ ~loaded.threw
               THEN Settle("createRelations", <<relationData>>,
                           [loaded EXCEPT !.threw = TRUE], loaded.graph,
                           FALSE, readOk, TRUE)
               ELSE Operation("createRelations", <<relationData>>, loaded,
                              AddRelationEdge(loaded.graph, newRelation),
                              TRUE, readOk, writeOk)

\* updateRelation: null when there is no such relation, else the update
\* with the next metadata, and the save.
ManagerUpdateRelation ==
    \E relationId \in RelationIds, updates \in RelationUpdates,
       readOk \in BOOLEAN, writeOk \in BOOLEAN :
        LET loaded == EnsureLoaded(graph, call.isLoaded, store, readOk)
            found == ~loaded.threw /\ HasEdge(loaded.graph, relationId)
            existingRelation == GetEdge(loaded.graph, relationId).attributes
        IN  /\ found => existingRelation.metadata.version < MaxVersion
            /\ Operation("updateRelation",
                         [relationId |-> relationId, updates |-> updates],
                         loaded,
                         IF found
                         THEN UpdateRelationEdgeAttributes(loaded.graph,
                                  relationId,
                                  AssignAttrs(updates,
                                      [metadata |-> UpdateMetadata(
                                           existingRelation.metadata)]))
                         ELSE loaded.graph,
                         found, readOk, writeOk)

\* deleteEntities, deleteRelations with one id: the save only when
\* something was deleted.
ManagerDeleteEntities ==
    \E id \in EntityIds, readOk \in BOOLEAN, writeOk \in BOOLEAN :
        LET loaded == EnsureLoaded(graph, call.isLoaded, store, readOk)
        IN  Operation("deleteEntities", <<id>>, loaded,
                      DeleteEntityNode(loaded.graph, id),
                      HasNode(loaded.graph, id), readOk, writeOk)

ManagerDeleteRelations ==
    \E id \in RelationIds, readOk \in BOOLEAN, writeOk \in BOOLEAN :
        LET loaded == EnsureLoaded(graph, call.isLoaded, store, readOk)
        IN  Operation("deleteRelations", <<id>>, loaded,
                      DeleteRelationEdge(loaded.graph, id),
                      HasEdge(loaded.graph, id), readOk, writeOk)

\* getEntitiesByIds, as every operation that only reads: the load when
\* there was none, no save.
ManagerGetEntitiesByIds ==
    \E id \in EntityIds, readOk \in BOOLEAN :
        LET loaded == EnsureLoaded(graph, call.isLoaded, store, readOk)
        IN  Operation("getEntitiesByIds", <<id>>, loaded, loaded.graph,
                      FALSE, readOk, TRUE)

ManagerNext ==
    \/ ManagerLoadGraphFromStore
    \/ ManagerSaveGraphToStore
    \/ ManagerCreateEntities
    \/ ManagerCreateRelations
    \/ ManagerUpdateRelation
    \/ ManagerDeleteEntities
    \/ ManagerDeleteRelations
    \/ ManagerGetEntitiesByIds

ManagerSpec == ManagerInit /\ [][ManagerNext]_vars

----------------------------------------------------------------------------
(* Properties *)

Range(seq) == {seq[i] : i \in 1..Len(seq)}

\* The elements of seq at the positions where keep holds, in order.
RECURSIVE Pick(_, _)
Pick(seq, keep) ==
    IF seq = <<>> THEN <<>>
    ELSE (IF Head(keep) THEN <<Head(seq)>> ELSE <<>>)
            \o Pick(Tail(seq), Tail(keep))

\* The call op has changed the graph and computed its result; its save is
\* in progress.  call.pre is the graph it found.
Mutated(op) == call.phase = "saving" /\ call.op = op

\* C1: in every reachable state the source and the target of every edge
\* are nodes that are in the graph.
EdgeEndpointsExist ==
    \A e \in graph.edges :
        HasNode(graph, e.source) /\ HasNode(graph, e.target)

\* deleteEntities dropped the target of an edge, and other edges remain.
EdgeEndpointsWitness ==
    /\ Mutated("deleteEntities")
    /\ \E e \in call.pre.edges : ~HasNode(graph, e.target)
    /\ graph.edges # {}

\* C2: after deleteEntities(ids) every listed id that existed is gone
\* together with every edge that had it as source or target, and the
\* other nodes and edges are the ones of before.
DeleteEntitiesCascades ==
    Mutated("deleteEntities") =>
        LET ids == Range(call.args)
            deleted == {x \in ids : HasNode(call.pre, x)}
        IN  /\ \A x \in deleted :
                /\ ~HasNode(graph, x)
                /\ \A e \in graph.edges : e.source # x /\ e.target # x
            /\ graph.nodes = {n \in call.pre.nodes : n.key \notin ids}
            /\ graph.edges = {e \in call.pre.edges :
                                 e.source \notin deleted
                                 /\ e.target \notin deleted}

\* deleteEntities dropped a node that two parallel edges pointed to, and
\* an edge between other nodes is still there.
DeleteEntitiesWitness ==
    /\ Mutated("deleteEntities")
    /\ \E e1, e2 \in call.pre.edges :
          /\ e1.key # e2.key
          /\ e1.source = e2.source /\ e1.target = e2.target
          /\ e1.source # e1.target
          /\ ~HasNode(graph, e1.target)
          /\ HasNode(graph, e1.source)
    /\ graph.edges # {}

\* C3: the graph holds at most one node per id, and createEntities lists
\* each item once: in createdIds when no node had its id just before the
\* item was processed (earlier items of the batch count), in existingIds
\* otherwise.
CreateEntitiesPartition ==
    /\ \A n1, n2 \in graph.nodes : n1.key = n2.key => n1 = n2
    /\ Mutated("createEntities") =>
        LET ids == [i \in 1..Len(call.args) |-> call.args[i].id]
            fresh == [i \in 1..Len(ids) |->
                        /\ ~HasNode(call.pre, ids[i])
                        /\ \A j \in 1..(i - 1) : ids[j] # ids[i]]
        IN  /\ call.result.createdIds = Pick(ids, fresh)
            /\ call.result.existingIds =
                   Pick(ids, [i \in 1..Len(ids) |-> ~fresh[i]])
            /\ \A i \in 1..Len(ids) : HasNode(graph, ids[i])

\* One batch names a new id twice: created by the first item, existing
\* for the second.
CreateEntitiesWitness ==
    /\ Mutated("createEntities")
    /\ Len(call.args) = 2
    /\ call.args[1].id = call.args[2].id
    /\ call.args[1].attributes # call.args[2].attributes
    /\ ~HasNode(call.pre, call.args[1].id)
    /\ call.result.createdIds = <<call.args[1].id>>
    /\ call.result.existingIds = <<call.args[1].id>>

\* The graph and the lists of createEntities after the first i items of
\* the batch of the call.
EntitiesAfter(i) == CreateEntities(call.pre, SubSeq(call.args, 1, i))

\* C4: when createEntities meets an id that exists, every attribute key
\* of the node that is not in the item's attributes keeps its value, and
\* every key in the item's attributes takes the item's value.
CreateEntitiesMergeKeeps ==
    Mutated("createEntities") =>
        \A i \in 1..Len(call.args) :
            LET item == call.args[i]
                before == EntitiesAfter(i - 1).graph
                after == EntitiesAfter(i).graph
            IN  HasNode(before, item.id) =>
                    LET old == GetNodeAttributes(before, item.id)
                        new == GetNodeAttributes(after, item.id)
                    IN  /\ \A k \in (DOMAIN old) \ (DOMAIN item.attributes) :
                              k \in DOMAIN new /\ new[k] = old[k]
                        /\ \A k \in DOMAIN item.attributes :
                              k \in DOMAIN new /\ new[k] = item.attributes[k]

\* What the merge does: type and name are always written (the name is the
\* id when the item gives none), the other keys are merged.
CreateEntitiesMergeKeepsButName ==
    Mutated("createEntities") =>
        \A i \in 1..Len(call.args) :
            LET item == call.args[i]
                before == EntitiesAfter(i - 1).graph
                after == EntitiesAfter(i).graph
            IN  HasNode(before, item.id) =>
                    LET old == GetNodeAttributes(before, item.id)
                        new == GetNodeAttributes(after, item.id)
                    IN  /\ \A k \in (DOMAIN old)
                                      \ ((DOMAIN item.attributes)
                                            \cup {"name", "type"}) :
                              k \in DOMAIN new /\ new[k] = old[k]
                        /\ \A k \in DOMAIN item.attributes :
                              k \in DOMAIN new /\ new[k] = item.attributes[k]
                        /\ "name" \notin DOMAIN item.attributes =>
                              new.name = item.id
                        /\ new.type = item.type

\* The attributes of node id after createEntities([item]) on graph g.
AttrsAfterCreate(g, item) ==
    GetNodeAttributes(CreateEntities(g, <<item>>).graph, item.id)

\* C5: createEntities with the same item twice leaves the node as one call
\* does, and with attributes A and then B leaves it as one call with the
\* union of A and B does (B winning on common keys); the id is in the
\* graph once.
CreateEntitiesTwiceIsUnion ==
    \A A \in EntityInputs, B \in EntityInputs :
        (A.id = B.id /\ A.type = B.type) =>
            LET once == CreateEntities(graph, <<A>>).graph
                both == [A EXCEPT !.attributes =
                            AssignAttrs(A.attributes, B.attributes)]
            IN  /\ AttrsAfterCreate(once, A) = GetNodeAttributes(once, A.id)
                /\ AttrsAfterCreate(once, B) = AttrsAfterCreate(graph, both)
                /\ Cardinality({n \in CreateEntities(once, <<B>>).graph.nodes :
                                   n.key = A.id}) = 1

\* The half of C5 that holds: the same item twice is the item once.
CreateEntitiesTwiceIsOnce ==
    \A A \in EntityInputs :
        LET once == CreateEntities(graph, <<A>>).graph
        IN  /\ AttrsAfterCreate(once, A) = GetNodeAttributes(once, A.id)
            /\ Cardinality({n \in CreateEntities(once, <<A>>).graph.nodes :
                               n.key = A.id}) = 1

\* The graph and the lists of createRelations after the first i items of
\* the batch of the call.
RelationsAfter(i) == CreateRelations(call.pre, SubSeq(call.args, 1, i))

\* C6: a createRelations item whose source or target is not a node when
\* the item is processed adds no edge and changes nothing, and adds one
\* error string; the batch goes on: every item ends in createdKeys or in
\* errors, and an item with both ends present and a free id is created.
CreateRelationsSkipsMissingEnd ==
    Mutated("createRelations") =>
        /\ call.result = RelationsAfter(Len(call.args))
        /\ Len(call.result.createdKeys) + Len(call.result.errors)
               = Len(call.args)
        /\ \A i \in 1..Len(call.args) :
              LET item == call.args[i]
                  old == RelationsAfter(i - 1)
                  new == RelationsAfter(i)
              IN  IF ~HasNode(old.graph, item.source)
                     \/ ~HasNode(old.graph, item.target)
                  THEN /\ new.graph = old.graph
                       /\ new.createdKeys = old.createdKeys
                       /\ Len(new.errors) = Len(old.errors) + 1
                       /\ SubSeq(new.errors, 1, Len(old.errors)) = old.errors
                  ELSE ~HasEdge(old.graph, item.id) =>
                       /\ HasEdge(new.graph, item.id)
                       /\ new.createdKeys = Append(old.createdKeys, item.id)
                       /\ new.errors = old.errors

\* The first item of a batch names a target that is not in the graph, and
\* the second item is created all the same.
CreateRelationsSkipsWitness ==
    /\ Mutated("createRelations")
    /\ Len(call.args) = 2
    /\ HasNode(call.pre, call.args[1].source)
    /\ ~HasNode(call.pre, call.args[1].target)
    /\ call.args[1].id # call.args[2].id
    /\ call.result.createdKeys = <<call.args[2].id>>
    /\ Len(call.result.errors) = 1
    /\ graph.edges = call.pre.edges \cup {GetEdge(graph, call.args[2].id)}
    /\ graph.nodes = call.pre.nodes

\* C7: edge ids are unique in the graph, and a createRelations item whose
\* id is the id of an existing edge is skipped with an error: the graph,
\* the existing edge included, stays as it was.
CreateRelationsKeepsExistingId ==
    /\ \A e1, e2 \in graph.edges : e1.key = e2.key => e1 = e2
    /\ Mutated("createRelations") =>
        \A i \in 1..Len(call.args) :
            LET item == call.args[i]
                old == RelationsAfter(i - 1)
                new == RelationsAfter(i)
            IN  HasEdge(old.graph, item.id) =>
                    /\ new.graph = old.graph
                    /\ GetEdge(new.graph, item.id) = GetEdge(old.graph, item.id)
                    /\ new.createdKeys = old.createdKeys
                    /\ Len(new.errors) = Len(old.errors) + 1

\* An item reuses the id of an edge that joins other ends; both of the
\* item's ends exist; the call reports that the id exists.
CreateRelationsExistingIdWitness ==
    /\ Mutated("createRelations")
    /\ \E i \in 1..Len(call.args) :
          LET item == call.args[i]
          IN  /\ HasEdge(call.pre, item.id)
              /\ HasNode(call.pre, item.source)
              /\ HasNode(call.pre, item.target)
              /\ GetEdge(call.pre, item.id).source # item.source
              /\ GetEdge(graph, item.id) = GetEdge(call.pre, item.id)
              /\ ("Relation with ID " \o item.id \o " already exists.")
                     \in Range(call.result.errors)

\* The call has settled: call.outcome tells whether the mutator returned
\* or rejected, call.replaced is the file its save found.
Settled(outcome) == call.phase = "done" /\ call.outcome = outcome

\* C8: with one caller at a time, when a mutator returns, the file is the
\* snapshot of the whole in-memory graph: its nodes and edges and nothing
\* of what the file held before.
SavedSnapshotIsGraph ==
    Settled("ok") =>
        /\ store.exists
        /\ store.text = SaveGraphData(graph)
        /\ {s.key : s \in JsonParse(store.text).nodes}
               = {n.key : n \in graph.nodes}
        /\ {<<s.key, s.source, s.target>> : s \in JsonParse(store.text).edges}
               = {<<e.key, e.source, e.target>> : e \in graph.edges}

\* deleteEntities returned: the file it replaced held a node and an edge
\* that the new file does not hold, and the new file still holds a node.
SavedSnapshotWitness ==
    /\ Settled("ok")
    /\ call.op = "deleteEntities"
    /\ call.replaced.exists
    /\ \E s \in JsonParse(call.replaced.text).nodes :
          \A t \in JsonParse(store.text).nodes : t.key # s.key
    /\ \E s \in JsonParse(call.replaced.text).edges :
          \A t \in JsonParse(store.text).edges : t.key # s.key
    /\ graph.nodes # {}

\* C9: when the save of a mutator fails, the caller gets the error, the
\* change stays in memory and the file stays as it was; memory and file
\* differ after a call only when its save failed.
FailedSaveKeepsMutation ==
    /\ Settled("error") =>
          /\ graph = call.result.graph
          /\ store = call.replaced
    /\ (call.phase = "done" /\ store.text # SaveGraphData(graph)) =>
          call.outcome = "error"

\* A save failed over an existing file: memory holds a node that the
\* file does not.
FailedSaveWitness ==
    /\ Settled("error")
    /\ store.exists
    /\ store.text # SaveGraphData(graph)
    /\ \E n \in graph.nodes :
          \A s \in JsonParse(store.text).nodes : s.key # n.key

\* The values of a record.
Values(r) == {r[k] : k \in DOMAIN r}

\* The graph a new manager loads from the file saveGraph writes for g.
Reloaded(g) ==
    LoadGraph(EmptyGraph, [exists |-> TRUE, text |-> SaveGraphData(g)])

\* C10: saveGraph and then loadGraph in a new manager give the graph
\* back: the same node ids with the same attributes, the same edge ids
\* with the same source, target, attributes and directedness, self-loops
\* and parallel edges included.
SaveLoadRoundTrip == Reloaded(graph) = graph

\* What does come back: the edges as they were, and the nodes with the
\* attributes whose value is not undefined.
SaveLoadRoundTripDefined ==
    /\ Reloaded(graph).edges = graph.edges
    /\ Reloaded(graph).nodes =
           {[n EXCEPT !.attributes = JsonObject(@)] : n \in graph.nodes}
    /\ (\A n \in graph.nodes : UNDEF \notin Values(n.attributes))
           => Reloaded(graph) = graph

\* C11: loadGraph on a missing file ends without error and leaves an
\* empty graph; on a file that is there and does not parse it fails, and
\* the error reaches the caller.
LoadGraphMissingOrCorrupt ==
    [][call.phase = "new" =>
          IF ~store.exists
          THEN call'.phase = "idle" /\ graph' = EmptyGraph
          ELSE IF JsonParseThrows(store.text)
          THEN call'.phase = "failed" /\ graph' = graph
          ELSE call'.phase = "idle"]_vars

\* The load of a file that does not parse has failed.
LoadGraphCorruptWitness ==
    /\ call.phase = "failed"
    /\ store = CorruptFile
    /\ graph = EmptyGraph

\* The graph and the list of createObservations after the first i items
\* of the batch of the call.
ObservationsAfter(i) == CreateObservations(call.pre, SubSeq(call.args, 1, i))

\* The related ids of obs that are not nodes when obs is linked in g.
MissingRelated(g, obs) ==
    {x \in Range(obs.relatedEntityIds) : ~HasNode(g, x) /\ x # obs.id}

\* C12: a related entity id that is not a node does not fail
\* createObservations: the observation node is there afterwards with type
\* "observation", the missing id gets no node and no edge, and the other
\* related ids are linked as they are without the missing id in the list.
CreateObservationsSkipsMissing ==
    Mutated("createObservations") =>
        /\ call.result = ObservationsAfter(Len(call.args))
        /\ \A i \in 1..Len(call.args) :
              LET obs == call.args[i]
                  old == ObservationsAfter(i - 1)
                  new == ObservationsAfter(i)
                  missing == MissingRelated(old.graph, obs)
                  Present(x) == x \notin missing
              IN  /\ HasNode(new.graph, obs.id)
                  /\ GetNodeAttributes(new.graph, obs.id).type = "observation"
                  /\ {n.key : n \in new.graph.nodes}
                         = {n.key : n \in old.graph.nodes} \cup {obs.id}
                  /\ \A e \in new.graph.edges :
                         e.source \notin missing /\ e.target \notin missing
                  /\ new = CreateObservation(old,
                               [obs EXCEPT !.relatedEntityIds =
                                               SelectSeq(@, Present)])
                  /\ \A x \in Range(obs.relatedEntityIds) \ missing :
                         HasEdge(new.graph, RelatesToKey(obs.id, x))

\* An observation names a missing id and then an existing one: its node
\* is created and linked to the existing one, and nothing else is added.
CreateObservationsSkipsWitness ==
    /\ Mutated("createObservations")
    /\ Len(call.args) = 1
    /\ LET obs == call.args[1]
       IN  /\ Len(obs.relatedEntityIds) = 2
           /\ ~HasNode(call.pre, obs.id)
           /\ ~HasNode(call.pre, obs.relatedEntityIds[1])
           /\ HasNode(call.pre, obs.relatedEntityIds[2])
           /\ ~HasNode(graph, obs.relatedEntityIds[1])
           /\ call.result.createdIds = <<obs.id>>
           /\ graph.edges = call.pre.edges \cup
                  {[key |-> RelatesToKey(obs.id, obs.relatedEntityIds[2]),
                    source |-> obs.id, target |-> obs.relatedEntityIds[2],
                    attributes |-> [type |-> "relates_to"],
                    undirected |-> FALSE]}
           /\ graph.edges # call.pre.edges

\* C13: after createObservations every related entity id of an
\* observation that is a node has an edge of type "relates_to" from the
\* observation node to it, whatever the graph held before the call.
CreateObservationsLinks ==
    Mutated("createObservations") =>
        \A i \in 1..Len(call.args) :
            \A x \in Range(call.args[i].relatedEntityIds) :
                HasNode(graph, x) =>
                    \E e \in graph.edges :
                        /\ e.source = call.args[i].id
                        /\ e.target = x
                        /\ e.attributes.type = "relates_to"

\* What holds instead: the derived key is taken afterwards, by a
\* relates_to edge from the observation or by the edge that had the key
\* before the call.
CreateObservationsLinksOrKeyTaken ==
    Mutated("createObservations") =>
        \A i \in 1..Len(call.args) :
            \A x \in Range(call.args[i].relatedEntityIds) :
                HasNode(graph, x) =>
                    LET key == RelatesToKey(call.args[i].id, x)
                    IN  /\ HasEdge(graph, key)
                        /\ \/ GetEdge(graph, key) =
                                  [key |-> key, source |-> call.args[i].id,
                                   target |-> x,
                                   attributes |-> [type |-> "relates_to"],
                                   undirected |-> FALSE]
                           \/ /\ HasEdge(call.pre, key)
                              /\ GetEdge(graph, key) = GetEdge(call.pre, key)

UpdatesAfter(i) == UpdateEntities(call.pre, SubSeq(call.args, 1, i))

\* C15: updateEntities adds and removes no node and no edge; an id that
\* is not a node goes to notFoundIds and changes nothing; an id that is a
\* node goes to updatedIds, the keys given take the values given and the
\* other keys of the node keep theirs.
UpdateEntitiesMergeOnly ==
    Mutated("updateEntities") =>
        /\ call.result = UpdatesAfter(Len(call.args))
        /\ {n.key : n \in graph.nodes} = {n.key : n \in call.pre.nodes}
        /\ graph.edges = call.pre.edges
        /\ \A i \in 1..Len(call.args) :
              LET update == call.args[i]
                  old == UpdatesAfter(i - 1)
                  new == UpdatesAfter(i)
              IN  IF ~HasNode(old.graph, update.id)
                  THEN /\ new.graph = old.graph
                       /\ new.notFoundIds = Append(old.notFoundIds, update.id)
                       /\ new.updatedIds = old.updatedIds
                  ELSE LET was == GetNodeAttributes(old.graph, update.id)
                           now == GetNodeAttributes(new.graph, update.id)
                       IN  /\ new.updatedIds = Append(old.updatedIds, update.id)
                           /\ new.notFoundIds = old.notFoundIds
                           /\ DOMAIN now = DOMAIN was \cup DOMAIN update.attributes
                           /\ \A k \in DOMAIN update.attributes :
                                 now[k] = update.attributes[k]
                           /\ \A k \in DOMAIN was \ DOMAIN update.attributes :
                                 now[k] = was[k]
                           /\ {n \in new.graph.nodes : n.key # update.id}
                                = {n \in old.graph.nodes : n.key # update.id}

\* updateEntities gives a new value to one key of a node that has edges
\* and has another key with a value of its own, which it keeps.
UpdateEntitiesWitness ==
    /\ Mutated("updateEntities")
    /\ Len(call.args) = 1
    /\ LET update == call.args[1]
       IN  /\ HasNode(call.pre, update.id)
           /\ "k" \in DOMAIN update.attributes
           /\ "k" \in DOMAIN GetNodeAttributes(call.pre, update.id)
           /\ GetNodeAttributes(call.pre, update.id).k # update.attributes.k
           /\ GetNodeAttributes(graph, update.id).k = update.attributes.k
           /\ GetNodeAttributes(graph, update.id).name = "N"
           /\ \E e \in graph.edges : e.source = update.id
           /\ call.result.updatedIds = <<update.id>>

\* C16: deleteRelations removes the listed edges that exist and nothing
\* else: the nodes and the other edges stay; a key is listed in
\* deletedKeys when its edge was there when the key was processed and in
\* notFoundKeys otherwise, so a key given twice is deleted once and then
\* not found.
DeleteRelationsExact ==
    Mutated("deleteRelations") =>
        LET keys == call.args
            there == [i \in 1..Len(keys) |->
                        /\ HasEdge(call.pre, keys[i])
                        /\ \A j \in 1..(i - 1) : keys[j] # keys[i]]
        IN  /\ graph.nodes = call.pre.nodes
            /\ graph.edges = {e \in call.pre.edges : e.key \notin Range(keys)}
            /\ call.result.deletedKeys = Pick(keys, there)
            /\ call.result.notFoundKeys =
                   Pick(keys, [i \in 1..Len(keys) |-> ~there[i]])

\* deleteRelations gets the key of an edge twice: deleted once, then not
\* found; the edge parallel to it is still there.
DeleteRelationsWitness ==
    /\ Mutated("deleteRelations")
    /\ Len(call.args) = 2
    /\ call.args[1] = call.args[2]
    /\ call.result.deletedKeys = <<call.args[1]>>
    /\ call.result.notFoundKeys = <<call.args[1]>>
    /\ \E e \in graph.edges :
          /\ e.source = GetEdge(call.pre, call.args[1]).source
          /\ e.target = GetEdge(call.pre, call.args[1]).target
          /\ e.source # e.target

\* C17: from its creation to its deletion a node keeps its id and its
\* type, and an edge keeps its id, source, target and type: no call
\* changes them on a node or an edge that it leaves in the graph.
IdentityAndTypeStable ==
    [][/\ \A n \in graph.nodes : \A m \in graph'.nodes :
             n.key = m.key => m.attributes.type = n.attributes.type
       /\ \A e \in graph.edges : \A d \in graph'.edges :
             e.key = d.key =>
                 /\ d.source = e.source /\ d.target = e.target
                 /\ d.attributes.type = e.attributes.type]_vars

\* What holds: the edges keep source, target and type, and
\* updateEntities and createObservations, with the updates and the
\* observations of this model, keep the type of every node.
EdgeIdentityStable ==
    [][/\ \A e \in graph.edges : \A d \in graph'.edges :
             e.key = d.key =>
                 /\ d.source = e.source /\ d.target = e.target
                 /\ d.attributes.type = e.attributes.type
       /\ (call'.phase = "saving" /\ call'.op # "createEntities") =>
             \A n \in graph.nodes : \A m \in graph'.nodes :
                 n.key = m.key => m.attributes.type = n.attributes.type]_vars

\* readGraph has computed its result for the filter call.args.
HasRead == call.phase = "read" /\ call.op = "readGraph"

\* An edge as readGraph returns it.
EdgeOutput(e) ==
    [id |-> e.key, source |-> e.source, target |-> e.target,
     attributes |-> e.attributes]

\* C18: readGraph returns, with the nodes that pass the filter, the edges
\* of the graph whose source and target are both among these nodes, each
\* once, self-loops and parallel edges included; without a filter it
\* returns every node and every edge.
ReadGraphEdgesBetweenReturned ==
    HasRead =>
        LET ids == {n.id : n \in call.result.nodes}
        IN  /\ DOMAIN call.result.edges =
                   {EdgeOutput(e) : e \in {d \in graph.edges :
                                      d.source \in ids /\ d.target \in ids}}
            /\ \A x \in DOMAIN call.result.edges : call.result.edges[x] = 1
            /\ call.args = NoAttrs =>
                   /\ call.result.nodes =
                          {[id |-> n.key, attributes |-> n.attributes] :
                              n \in graph.nodes}
                   /\ DOMAIN call.result.edges =
                          {EdgeOutput(e) : e \in graph.edges}

\* A filter keeps one node of an edge and not the other: the edge is
\* left out, and the self-loop on the node that is kept is returned.
ReadGraphEdgesWitness ==
    /\ HasRead
    /\ call.args # NoAttrs
    /\ \E e \in graph.edges :
          /\ e.source \in {n.id : n \in call.result.nodes}
          /\ e.target \notin {n.id : n \in call.result.nodes}
          /\ EdgeOutput(e) \notin DOMAIN call.result.edges
    /\ \E e \in graph.edges :
          /\ e.source = e.target
          /\ EdgeOutput(e) \in DOMAIN call.result.edges

\* The node n satisfies the parts of the filter that are given.
Satisfies(n, filter) ==
    /\ Given(filter, "nodeIds") => n.key \in filter.nodeIds
    /\ Given(filter, "types") =>
          /\ "type" \in DOMAIN n.attributes
          /\ n.attributes.type \in filter.types
    /\ Given(filter, "attributes") =>
          \A k \in DOMAIN filter.attributes :
              /\ k \in DOMAIN n.attributes
              /\ n.attributes[k] = filter.attributes[k]

\* C19: the nodes readGraph returns are the nodes of the graph that
\* satisfy every part of the filter that is given: id in nodeIds, type in
\* types, and for every key of attributes a value equal to the given one.
ReadGraphNodesSatisfyFilter ==
    HasRead =>
        {n.id : n \in call.result.nodes}
            = {n.key : n \in {m \in graph.nodes : Satisfies(m, call.args)}}

\* What holds: the same for the filters whose attribute values are no
\* arrays, and a filter with an array value returns no node.
ReadGraphNodesSatisfyPrimitive ==
    HasRead =>
        IF Given(call.args, "attributes")
           /\ \E k \in DOMAIN call.args.attributes :
                 call.args.attributes[k] \in ArrayValues
        THEN call.result.nodes = {}
        ELSE {n.id : n \in call.result.nodes}
                 = {n.key : n \in {m \in graph.nodes :
                                      Satisfies(m, call.args)}}

\* getNeighborhood has found its start node and computed its result.
HasNeighborhood ==
    /\ call.phase = "read" /\ call.op = "getNeighborhood"
    /\ call.result.found

\* An edge of the set leads from m to n in the direction: outbound from
\* source to target, inbound from target to source, all either way.
Hop(edges, m, n, direction) ==
    \E e \in edges :
        \/ direction \in {"outbound", "all"} /\ e.source = m /\ e.target = n
        \/ direction \in {"inbound", "all"} /\ e.target = m /\ e.source = n

\* The nodes at most d hops from start along the edges of the set.
RECURSIVE Within(_, _, _, _, _)
Within(g, edges, start, d, direction) ==
    IF d = 0 THEN {start}
    ELSE LET near == Within(g, edges, start, d - 1, direction)
         IN  near \cup {n.key : n \in {x \in g.nodes :
                            \E m \in near : Hop(edges, m, x.key, direction)}}

\* C20: getNeighborhood(X, d, direction) returns the nodes that at most d
\* hops lead to from X along edges in the direction asked for: outbound
\* from source to target, inbound from target to source, all either way.
NeighborhoodIsReachable ==
    HasNeighborhood =>
        {x.id : x \in call.result.entities}
            = Within(graph, graph.edges, call.args.startNodeId,
                     call.args.maxDepth, call.args.direction)

\* What holds: outbound and inbound go along the directed edges only, an
\* undirected edge is followed for the direction all alone.
NeighborhoodIsReachableDirected ==
    HasNeighborhood =>
        {x.id : x \in call.result.entities}
            = Within(graph,
                     IF call.args.direction = "all" THEN graph.edges
                     ELSE {e \in graph.edges : ~e.undirected},
                     call.args.startNodeId, call.args.maxDepth,
                     call.args.direction)

\* C21: for a graph that holds X and for every direction,
\* getNeighborhood(X, 0, direction) returns the node X and no edges.
NeighborhoodDepthZero ==
    (HasNeighborhood /\ call.args.maxDepth = 0) =>
        /\ {x.id : x \in call.result.entities} = {call.args.startNodeId}
        /\ DOMAIN call.result.relations = {}

\* What holds at depth 0: the node X, and the self-loops of X.
NeighborhoodDepthZeroLoops ==
    (HasNeighborhood /\ call.args.maxDepth = 0) =>
        /\ {x.id : x \in call.result.entities} = {call.args.startNodeId}
        /\ DOMAIN call.result.relations =
               {RelationOutput(e) : e \in {d \in graph.edges :
                   /\ d.source = call.args.startNodeId
                   /\ d.target = call.args.startNodeId}}

\* C22: the relations getNeighborhood returns are the edges of the graph
\* whose source and target are both among the nodes it returns, each
\* once, be it a self-loop, one of several parallel edges or an edge met
\* at both of its ends.
NeighborhoodRelationsInduced ==
    HasNeighborhood =>
        LET ids == {x.id : x \in call.result.entities}
        IN  /\ DOMAIN call.result.relations =
                   {RelationOutput(e) : e \in {d \in graph.edges :
                       d.source \in ids /\ d.target \in ids}}
            /\ \A x \in DOMAIN call.result.relations :
                   call.result.relations[x] = 1

\* The result holds a self-loop and two parallel edges between two of
\* its nodes, and leaves out an edge to a node that was not reached.
NeighborhoodRelationsWitness ==
    /\ HasNeighborhood
    /\ LET ids == {x.id : x \in call.result.entities}
           rels == DOMAIN call.result.relations
       IN  /\ \E x \in rels : x.from = x.to
           /\ \E x, y \in rels :
                 x.id # y.id /\ x.from = y.from /\ x.to = y.to /\ x.from # x.to
           /\ \E e \in graph.edges : e.target \notin ids

----------------------------------------------------------------------------
(* queryGraphAdvanced *)

\* A query of the given type has returned; call.result is its output.
Queried(type) ==
    /\ call.phase = "read"
    /\ call.op = "queryGraphAdvanced"
    /\ call.args.query_type = type

\* The shortest_path query at hand names a start and a target, and both
\* are nodes.
EndsExist ==
    /\ Queried("shortest_path")
    /\ Has(call.args, "start_node_ids") /\ call.args.start_node_ids # <<>>
    /\ Has(call.args, "target_node_id") /\ Truthy(call.args.target_node_id)
    /\ HasNode(graph, call.args.start_node_ids[1])
    /\ HasNode(graph, call.args.target_node_id)

\* The weight of an edge: its weight attribute, 1 when it has none.
WeightOf(attrs) == IF Has(attrs, "weight") THEN attrs.weight ELSE 1

\* The least total weight of a path from source to target.
LeastTotal(g, source, target) ==
    Least({Sum([i \in 1..(Len(p) - 1) |->
                   Least({WeightOf(e.attributes) :
                             e \in EdgesBetween(g, p[i], p[i + 1])})]) :
              p \in NodePaths(g, source, target)})

\* The nodes and the edges of the path an output reports.
ReportedNodes(output) ==
    IF Has(output, "paths") THEN output.paths[1].nodes ELSE output.nodes

ReportedEdges(output) ==
    IF Has(output, "paths") THEN output.paths[1].edges ELSE output.edges

\* The output reports no node, no edge and no path.
ReportsNothing(output) ==
    /\ Has(output, "nodes") => output.nodes = <<>>
    /\ Has(output, "edges") => output.edges = <<>>
    /\ Has(output, "paths") => output.paths = <<>>
    /\ Has(output, "path") => output.path = NullPath

\* C24: a shortest_path query between two nodes, the target reachable from
\* the start along directed edges, returns a path from the start to the
\* target whose total edge weight is the least there is, with that total
\* as its cost; for A -> B (2), B -> C (2), A -> C (10) it is [A, B, C]
\* with cost 4.  (Stated of the calls the libraries take; a call they
\* refuse returns an error and no path at all.)
ShortestPathIsLightest ==
    (/\ EndsExist
     /\ call.tolerant
     /\ Composition(call.args) # "nodes_only"
     /\ NodePaths(graph, call.args.start_node_ids[1],
                  call.args.target_node_id) # {}) =>
        /\ call.result.error = NULL
        /\ ~ReportsNothing(call.result) \/ call.args.start_node_ids[1]
                                              = call.args.target_node_id
        /\ LET nodes == ReportedNodes(call.result)
               edges == ReportedEdges(call.result)
               least == LeastTotal(graph, call.args.start_node_ids[1],
                                   call.args.target_node_id)
           IN  /\ [i \in 1..Len(nodes) |-> nodes[i].id]
                      \in NodePaths(graph, call.args.start_node_ids[1],
                                    call.args.target_node_id)
               /\ Len(edges) = Len(nodes) - 1
               /\ \A i \in 1..Len(edges) :
                      /\ edges[i].source = nodes[i].id
                      /\ edges[i].target = nodes[i + 1].id
               /\ Sum([i \in 1..Len(edges) |->
                          WeightOf(edges[i].attributes)]) = least
               /\ Has(call.result, "paths") =>
                      call.result.paths[1].cost = least

\* What does hold: when the libraries take the calls, the node path is one
\* of least weight as getEdgeWeight weighs (0 counting 1).
ShortestPathLeastByGetEdgeWeight ==
    (/\ EndsExist
     /\ call.tolerant
     /\ Composition(call.args) # "nodes_only"
     /\ NodePaths(graph, call.args.start_node_ids[1],
                  call.args.target_node_id) # {}) =>
        /\ call.result.error = NULL
        /\ LET nodes == ReportedNodes(call.result)
           IN  [i \in 1..Len(nodes) |-> nodes[i].id]
                   \in Dijkstra(graph, call.args.start_node_ids[1],
                                call.args.target_node_id)

\* C25: a shortest_path query between two nodes whose target cannot be
\* reached from the start returns no node, no edge and a null path, and
\* sets no error.
ShortestPathUnreachableIsEmpty ==
    (/\ EndsExist
     /\ NodePaths(graph, call.args.start_node_ids[1],
                  call.args.target_node_id) = {}) =>
        /\ call.result.error = NULL
        /\ ReportsNothing(call.result)

\* What does hold: the same when the search has no edge to weigh, or the
\* library takes the weight callback.
ShortestPathUnreachableUnweighed ==
    (/\ EndsExist
     /\ call.tolerant \/ ~DijkstraWeighsAnEdge(graph,
                              call.args.start_node_ids[1],
                              call.args.target_node_id)
     /\ NodePaths(graph, call.args.start_node_ids[1],
                  call.args.target_node_id) = {}) =>
        /\ call.result.error = NULL
        /\ ReportsNothing(call.result)

\* The query at hand names ids, and a start id (for shortest_path also the
\* target id) that is no node; a traversal has no start id that is one.
NamesMissingNode ==
    \/ /\ Queried("traversal")
       /\ Has(call.args, "start_node_ids") /\ call.args.start_node_ids # <<>>
       /\ TraversalAlgorithm(call.args) = "bfs"
       /\ \A i \in DOMAIN call.args.start_node_ids :
              ~HasNode(graph, call.args.start_node_ids[i])
    \/ /\ Queried("shortest_path")
       /\ Has(call.args, "start_node_ids") /\ call.args.start_node_ids # <<>>
       /\ Has(call.args, "target_node_id")
       /\ Truthy(call.args.target_node_id)
       /\ \/ ~HasNode(graph, call.args.start_node_ids[1])
          \/ ~HasNode(graph, call.args.target_node_id)

\* C26: a traversal or a shortest_path query that names a start id (or a
\* target id) which is no node of the graph returns an empty result with
\* no error set.
QueryMissingNodeIsEmpty ==
    NamesMissingNode =>
        /\ call.result.error = NULL
        /\ ReportsNothing(call.result)

\* What does hold: the same of a traversal alone.
TraversalMissingStartIsEmpty ==
    (NamesMissingNode /\ Queried("traversal")) =>
        /\ call.result.error = NULL
        /\ ReportsNothing(call.result)

\* An input with a query_type that is neither of the two, a traversal
\* without start ids, or a shortest_path without start ids or target id.
Malformed(input) ==
    \/ input.query_type \notin {"traversal", "shortest_path"}
    \/ ~Has(input, "start_node_ids")
    \/ input.start_node_ids = <<>>
    \/ /\ input.query_type = "shortest_path"
       /\ ~Has(input, "target_node_id") \/ ~Truthy(input.target_node_id)

\* The error that tells what a malformed input lacks.
MalformedError(input) ==
    IF input.query_type = "traversal"
    THEN "Missing start_node_ids for traversal query."
    ELSE IF input.query_type = "shortest_path"
    THEN "Missing start_node_ids or target_node_id for shortest_path query."
    ELSE "Unsupported query_type: " \o input.query_type

\* C27: a malformed queryGraphAdvanced call returns the error that names
\* what is wrong and no node, edge or path, and leaves the graph and the
\* store as they were.
MalformedQueryFails ==
    [][(/\ call.phase = "idle"
        /\ call'.phase = "read"
        /\ call'.op = "queryGraphAdvanced"
        /\ Malformed(call'.args)) =>
           /\ call'.result.error = MalformedError(call'.args)
           /\ ReportsNothing(call'.result)
           /\ graph' = graph
           /\ store' = store]_vars

MalformedQueryWitness ==
    /\ call.phase = "read"
    /\ call.op = "queryGraphAdvanced"
    /\ call.args.query_type = "search"
    /\ HasNode(graph, call.args.start_node_ids[1])
    /\ graph.edges # {}
    /\ call.result.error # NULL

\* The output of the query at hand had it asked for the composition c: the
\* same input but for result_options, the same answers of the libraries.
Composed(outcome, c) ==
    Compose(AssignAttrs(call.args, [result_options |-> [composition |-> c]]),
            Caught(call.args, outcome))

\* The ways the try block of the query at hand can have ended.
Outcomes ==
    {outcome \in TryBlock(graph, call.args, call.tolerant) :
        Compose(call.args, Caught(call.args, outcome)) = call.result}

\* C28: the composition only selects fields: the nodes under nodes_only
\* are the nodes under nodes_and_edges, and the path of a shortest_path
\* under paths has the nodes and the edges reported under nodes_and_edges.
CompositionOnlySelects ==
    (call.phase = "read" /\ call.op = "queryGraphAdvanced") =>
        \A outcome \in Outcomes :
            /\ Composed(outcome, "nodes_only").nodes
                   = Composed(outcome, "nodes_and_edges").nodes
            /\ (/\ call.args.query_type = "shortest_path"
                /\ Composed(outcome, "paths").paths # <<>>) =>
                   /\ Composed(outcome, "paths").paths[1].nodes
                          = Composed(outcome, "nodes_and_edges").nodes
                   /\ Composed(outcome, "paths").paths[1].edges
                          = Composed(outcome, "nodes_and_edges").edges

\* What does hold: the nodes agree for every query that found no path, and
\* paths agrees with nodes_and_edges.
CompositionOnlySelectsButPathNodes ==
    (call.phase = "read" /\ call.op = "queryGraphAdvanced") =>
        \A outcome \in Outcomes :
            /\ (outcome.threw \/ outcome.path = NullPath) =>
                   Composed(outcome, "nodes_only").nodes
                       = Composed(outcome, "nodes_and_edges").nodes
            /\ (/\ call.args.query_type = "shortest_path"
                /\ Composed(outcome, "paths").paths # <<>>) =>
                   /\ Composed(outcome, "paths").paths[1].nodes
                          = Composed(outcome, "nodes_and_edges").nodes
                   /\ Composed(outcome, "paths").paths[1].edges
                          = Composed(outcome, "nodes_and_edges").edges
                   /\ Composed(outcome, "nodes_only").nodes = <<>>

\* The traversal at hand is well-formed and reports nodes.
Traversed ==
    /\ Queried("traversal")
    /\ ~Malformed(call.args)
    /\ TraversalAlgorithm(call.args) = "bfs"
    /\ Has(call.result, "nodes")

\* The nodes at most max_depth hops, in the direction asked for, from a
\* start id that is a node.
WithinMaxDepth ==
    UNION {Within(graph, graph.edges, call.args.start_node_ids[i],
                  TraversalMaxDepth(call.args),
                  IF TraversalDirection(call.args) = "outgoing" THEN "outbound"
                  ELSE IF TraversalDirection(call.args) = "incoming"
                  THEN "inbound" ELSE "all") :
              i \in {j \in DOMAIN call.args.start_node_ids :
                        HasNode(graph, call.args.start_node_ids[j])}}

\* C29: the nodes of a traversal are the nodes within max_depth hops of a
\* start node, in the direction asked for, that satisfy node_conditions:
\* a node that fails them is left out, what lies behind it is not, and no
\* node farther away is in.
TraversalNodesWithinDepth ==
    Traversed =>
        {call.result.nodes[i].id : i \in DOMAIN call.result.nodes}
            = {n \in WithinMaxDepth :
                  CheckConditions(GetNodeAttributes(graph, n),
                                  NodeConditions(call.args))}

\* What does hold: the same when bfsFromNode takes the direction for its
\* mode.
TraversalNodesWithinDepthByMode ==
    (Traversed /\ call.tolerant) =>
        /\ call.result.error = NULL
        /\ {call.result.nodes[i].id : i \in DOMAIN call.result.nodes}
               = {n \in WithinMaxDepth :
                     CheckConditions(GetNodeAttributes(graph, n),
                                     NodeConditions(call.args))}

----------------------------------------------------------------------------
(* Tool calls that overlap *)

\* C30: every graph operation of the tool surface runs to completion
\* before another begins: no tool call reads or changes the graph while
\* the changes of another one, analyze_codebase included, are only partly
\* made.
OperationsRunToCompletion ==
    [][(call.other = NoTask /\ call'.other # NoTask) => ~PartlyApplied]_vars

\* What does hold: the changes analyze_codebase makes for one file are
\* made in one piece, and so are those of delete_entities.
ChangesOfOneFileInOnePiece ==
    [][graph' # graph =>
          \/ /\ call.analysis.at = "read"
             /\ call'.analysis.applied = call.analysis.applied + 1
             /\ HasNode(graph', FileNodeId(Head(call.analysis.files)))
             /\ \A i \in DOMAIN SplitText(Head(call.analysis.files)) :
                    HasNode(graph',
                            ChunkNodeId(Head(call.analysis.files),
                                SplitText(Head(call.analysis.files))[i]))
          \/ /\ call.other = NoTask
             /\ call'.other.at = "saving"
             /\ graph' = call'.other.result.graph]_vars

----------------------------------------------------------------------------
(* queryGraphAdvanced: edges of a traversal, weights of a path *)

\* The direction of the traversal at hand, as Within names it.
AskedDirection ==
    IF TraversalDirection(call.args) = "outgoing" THEN "outbound"
    ELSE IF TraversalDirection(call.args) = "incoming" THEN "inbound"
    ELSE "all"

\* The traversal at hand went through, and reports nodes and edges.
TraversedWithEdges ==
    /\ Traversed
    /\ call.tolerant
    /\ Has(call.result, "edges")

\* The edges at a node within max_depth of a start node, on the side the
\* direction names, that pass edge_types_filter and edge_conditions.
EdgesWithinMaxDepth ==
    {e \in graph.edges :
        /\ \E n \in WithinMaxDepth :
               e \in EdgesOf(graph, n, TraversalDirection(call.args))
        /\ PassesTypeFilter(call.args, e.attributes)
        /\ CheckConditions(e.attributes, EdgeConditions(call.args))}

ResultNodeIds == {call.result.nodes[i].id : i \in DOMAIN call.result.nodes}

ResultEdgeIds == {call.result.edges[i].id : i \in DOMAIN call.result.edges}

\* C31: every edge of a traversal is tested on its own: an edge at a
\* visited node within max_depth that passes edge_types_filter and
\* edge_conditions is among the result edges whether or not its end nodes
\* satisfy node_conditions, and an edge that fails edge_conditions is left
\* out while the nodes behind it are still reached.
TraversalEdgesTestedAlone ==
    TraversedWithEdges =>
        /\ ResultEdgeIds = {e.key : e \in EdgesWithinMaxDepth}
        /\ ResultNodeIds
               = {n \in WithinMaxDepth :
                     CheckConditions(GetNodeAttributes(graph, n),
                                     NodeConditions(call.args))}

\* What does hold: the result edges are those of them whose two ends
\* satisfy node_conditions.
TraversalEdgesBetweenPassingNodes ==
    TraversedWithEdges =>
        /\ ResultEdgeIds
               = {e.key : e \in {x \in EdgesWithinMaxDepth :
                     /\ CheckConditions(GetNodeAttributes(graph, x.source),
                                        NodeConditions(call.args))
                     /\ CheckConditions(GetNodeAttributes(graph, x.target),
                                        NodeConditions(call.args))}}
        /\ ResultNodeIds
               = {n \in WithinMaxDepth :
                     CheckConditions(GetNodeAttributes(graph, n),
                                     NodeConditions(call.args))}

\* The traversal at hand has an edge_types_filter.
HasTypeFilter ==
    /\ Has(call.args, "traversal_options")
    /\ Has(call.args.traversal_options, "edge_types_filter")

\* The nodes within max_depth of a start node along edges of the listed
\* types only.
WithinMaxDepthByListedTypes ==
    UNION {Within(graph,
                  {e \in graph.edges :
                      PassesTypeFilter(call.args, e.attributes)},
                  call.args.start_node_ids[i],
                  TraversalMaxDepth(call.args), AskedDirection) :
              i \in {j \in DOMAIN call.args.start_node_ids :
                        HasNode(graph, call.args.start_node_ids[j])}}

\* C32: with edge_types_filter only edges of the listed types are
\* followed: a node that only edges of other types lead to is not among
\* the result nodes, and no edge of another type is among the result
\* edges.
TraversalFollowsListedTypes ==
    (TraversedWithEdges /\ HasTypeFilter) =>
        /\ ResultNodeIds \subseteq WithinMaxDepthByListedTypes
        /\ \A i \in DOMAIN call.result.edges :
               PassesTypeFilter(call.args, call.result.edges[i].attributes)

\* What does hold: the filter keeps edges of other types out of the
\* result edges; the nodes are those that edges of any type lead to.
TraversalListsListedTypes ==
    (TraversedWithEdges /\ HasTypeFilter) =>
        /\ ResultNodeIds
               = {n \in WithinMaxDepth :
                     CheckConditions(GetNodeAttributes(graph, n),
                                     NodeConditions(call.args))}
        /\ \A i \in DOMAIN call.result.edges :
               PassesTypeFilter(call.args, call.result.edges[i].attributes)

\* C34: the cost of a shortest_path result is the sum of the weight
\* attributes of the edges returned, an edge without the attribute
\* counting 1 and an edge of weight 0 counting 0.
ShortestPathCostSumsWeights ==
    (EndsExist /\ Has(call.result, "paths") /\ call.result.paths # <<>>) =>
        call.result.paths[1].cost
            = Sum([i \in DOMAIN call.result.paths[1].edges |->
                      WeightOf(call.result.paths[1].edges[i].attributes)])

\* What does hold: the cost is the sum of what getEdgeWeight gives, which
\* is 1 for a weight of 0 as for no weight.
ShortestPathCostSumsGetEdgeWeight ==
    (EndsExist /\ Has(call.result, "paths") /\ call.result.paths # <<>>) =>
        call.result.paths[1].cost
            = Sum([i \in DOMAIN call.result.paths[1].edges |->
                      IF WeightOf(call.result.paths[1].edges[i].attributes) = 0
                      THEN 1
                      ELSE WeightOf(call.result.paths[1].edges[i].attributes)])

\* C35: the edges of a shortest_path result join the nodes of the result
\* two by two in their order, and the cost is the least total weight of
\* a path from the start to the target, parallel edges of different
\* weights included.
ShortestPathEdgesJoinAtLeastCost ==
    (EndsExist /\ Has(call.result, "paths") /\ call.result.paths # <<>>) =>
        LET path == call.result.paths[1]
        IN  /\ Len(path.edges) = Len(path.nodes) - 1
            /\ \A i \in DOMAIN path.edges :
                   /\ path.edges[i].source = path.nodes[i].id
                   /\ path.edges[i].target = path.nodes[i + 1].id
            /\ path.cost = LeastTotal(graph, call.args.start_node_ids[1],
                                      call.args.target_node_id)

\* What does hold: the edges join the nodes two by two, each being some
\* edge between the two.
ShortestPathEdgesJoin ==
    (EndsExist /\ Has(call.result, "paths") /\ call.result.paths # <<>>) =>
        LET path == call.result.paths[1]
        IN  /\ Len(path.edges) = Len(path.nodes) - 1
            /\ \A i \in DOMAIN path.edges :
                   /\ path.edges[i].source = path.nodes[i].id
                   /\ path.edges[i].target = path.nodes[i + 1].id
                   /\ HasEdge(graph, path.edges[i].id)

\* The traversal at hand has neither node_conditions nor edge_conditions.
Unconditioned ==
    /\ ~Has(call.args, "node_conditions")
    /\ ~Has(call.args, "edge_conditions")

\* C36: in the result of a traversal without node_conditions and
\* edge_conditions both ends of every edge reported are among the nodes
\* reported, whatever max_depth and direction.
TraversalEdgesEndAtResultNodes ==
    (Traversed /\ Unconditioned /\ Has(call.result, "edges")) =>
        \A i \in DOMAIN call.result.edges :
            /\ call.result.edges[i].source \in ResultNodeIds
            /\ call.result.edges[i].target \in ResultNodeIds

\* What does hold: one end of every edge reported is among the nodes
\* reported; the other may lie one hop beyond max_depth.
TraversalEdgesStartAtResultNodes ==
    (Traversed /\ Unconditioned /\ Has(call.result, "edges")) =>
        \A i \in DOMAIN call.result.edges :
            /\ \/ call.result.edges[i].source \in ResultNodeIds
               \/ call.result.edges[i].target \in ResultNodeIds
            /\ \A n \in {call.result.edges[i].source,
                         call.result.edges[i].target} :
                   \E k \in DOMAIN call.args.start_node_ids :
                       /\ HasNode(graph, call.args.start_node_ids[k])
                       /\ n \in Within(graph, graph.edges,
                                       call.args.start_node_ids[k],
                                       TraversalMaxDepth(call.args) + 1,
                                       AskedDirection)

----------------------------------------------------------------------------
(* getNeighborhood: the loop *)

\* getNeighborhood is in its loop.
InLoop == call.phase = "loop"

\* No node is in the queue twice.
QueuedOnce ==
    InLoop =>
        \A i, j \in DOMAIN call.st.queue :
            call.st.queue[i].node = call.st.queue[j].node => i = j

\* C33: getNeighborhood comes to its end on every graph, with cycles,
\* self-loops and parallel edges, and no node is put in the queue twice:
\* a node discovered before, at a smaller or the same depth, is not
\* queued again.
NeighborhoodTerminatesQueuedOnce ==
    /\ []QueuedOnce
    /\ InLoop ~> (call.phase = "read" /\ call.result.found)

\* The loop has ended on a graph with the cycle, the self-loop and the
\* parallel edges, every node queued.
NeighborhoodTerminatesWitness ==
    /\ InLoop
    /\ call.head > Len(call.st.queue)
    /\ Len(call.st.queue) = 3
    /\ {"e1", "e2", "e3", "e5", "e6"} \subseteq {e.key : e \in graph.edges}

\* The loop computes what Bfs computes.
NeighborhoodLoopIsBfs ==
    (InLoop /\ call.head > Len(call.st.queue)) =>
        call.st = Bfs(graph, call.args.startNodeId, call.args.maxDepth,
                      call.args.direction)

----------------------------------------------------------------------------
(* Mutating calls that overlap *)

\* Both calls have returned, and one of them came while the other was
\* awaiting its save.
BothAcknowledged ==
    /\ \A c \in Callers : call.tasks[c].at = "acked"
    /\ \E c \in Callers : call.tasks[c].overlapped

\* C37: when two mutating calls overlap, the second coming while the
\* first awaits its save, then once both have returned the file holds
\* the graph in memory, with the changes of both, in whatever order the
\* two writes end.
OverlappingSavesAgree ==
    BothAcknowledged =>
        /\ store.exists
        /\ store.text = SaveGraphData(graph)

\* What does hold: the file holds the text one of the two calls wrote,
\* and the later call wrote the graph in memory.
OverlappingSavesLastWriteStays ==
    BothAcknowledged =>
        /\ store.exists
        /\ \E c \in Callers : store.text = call.tasks[c].data
        /\ \E c \in Callers :
               /\ call.tasks[c].overlapped
               /\ call.tasks[c].data = SaveGraphData(graph)

----------------------------------------------------------------------------
(* GraphManager *)

\* The file has a line that JSON.parse rejects.
HasCutLine == store.exists /\ \E l \in store.lines : ~l.wellFormed

\* The step is an operation that loads the file: loadGraphFromStore
\* itself, or any other operation but saveGraphToStore while isLoaded is
\* false.
LoadsStore ==
    /\ call' # call
    /\ \/ call'.op = "loadGraphFromStore"
       \/ ~call.isLoaded /\ call'.op # "saveGraphToStore"

\* C38: loadGraphFromStore on a file that is there and holds a line that
\* cannot be parsed fails with an error the caller gets; the load does
\* not complete with a graph that lacks the records of such lines.
LoadRejectsCutLine ==
    [][(HasCutLine /\ LoadsStore) =>
           /\ call'.outcome = "error"
           /\ ~call'.loadedNow]_vars

\* What does hold: when the file can be read the load completes with the
\* graph of the other lines, and the next save writes a file without the
\* line.
LoadSkipsCutLine ==
    [][/\ (HasCutLine /\ LoadsStore /\ ~outage) =>
              /\ call'.loadedNow
              /\ call'.isLoaded
       /\ store' # store => \A l \in store'.lines : l.wellFormed]_vars

\* The from and to of every relation are the source and the target of its
\* edge.
RelationEndsAgree ==
    \A e \in graph.edges :
        /\ e.attributes.from = e.source
        /\ e.attributes.to = e.target

\* Which nodes every edge joins.
Adjacency(g) ==
    {[key |-> e.key, source |-> e.source, target |-> e.target,
      undirected |-> e.undirected] : e \in g.edges}

\* The graph loadGraphFromStore builds of what saveGraphToStore writes
\* for g.
Restored(g) ==
    LoadGraphFromStore(EmptyGraph,
                       [exists |-> TRUE, lines |-> ExportLines(g)], TRUE)

\* C39: after any sequence of operations the from and to attributes of
\* every relation are the source and the target of its edge, so that
\* saveGraphToStore and loadGraphFromStore rebuild a graph with the same
\* adjacency and the same getNeighborhood results.
RelationsKeepTheirEnds ==
    call.isLoaded =>
        /\ RelationEndsAgree
        /\ ~Restored(graph).threw
        /\ Adjacency(Restored(graph).graph) = Adjacency(graph)
        /\ \A start \in EntityIds, direction \in Directions :
               GetNeighborhood(Restored(graph).graph, start, MaxDepth,
                               direction).entities
                   = GetNeighborhood(graph, start, MaxDepth,
                                     direction).entities

\* What does hold: the ends agree until an updateRelation names from or
\* to, and as long as they agree the graph is restored as it is.
RelationsKeepTheirEndsUnlessUpdated ==
    [][/\ (/\ RelationEndsAgree
           /\ ~(/\ call'.op = "updateRelation"
                /\ \/ Has(call'.args.updates, "from")
                   \/ Has(call'.args.updates, "to"))) => RelationEndsAgree'
       /\ RelationEndsAgree =>
              /\ ~Restored(graph).threw
              /\ Adjacency(Restored(graph).graph) = Adjacency(graph)]_vars

\* C40: GraphManager does not write the file before it has loaded it: a
\* save while isLoaded is false writes nothing, an operation that finds
\* isLoaded false loads before it does anything else, and isLoaded
\* becomes true only in a load that has completed; what is written is the
\* graph in memory of a manager that has loaded.
NeverSavesBeforeLoad ==
    [][/\ store' # store =>
              /\ call'.isLoaded
              /\ store' = [exists |-> TRUE, lines |-> ExportLines(graph')]
       /\ (~call.isLoaded /\ call' # call
               /\ call'.op # "saveGraphToStore"
               /\ call'.outcome = "ok") => call'.isLoaded
       /\ (~call.isLoaded /\ call'.isLoaded) => call'.loadedNow
       /\ (~call.isLoaded /\ call'.isLoaded
               /\ call'.op = "loadGraphFromStore") =>
              graph' = InitializeGraph(
                           {i \in ParsedItems(store.lines) : IsEntityItem(i)},
                           {i \in ParsedItems(store.lines) :
                               IsRelationItem(i)}).graph]_vars

\* saveGraphToStore was called before any load, with a file of an earlier
\* run in place, and has returned.
NeverSavesBeforeLoadWitness ==
    /\ call.op = "saveGraphToStore"
    /\ call.outcome = "ok"
    /\ ~call.isLoaded
    /\ store = EarlierLines
====
